---- MODULE Spec2Model ----
(***************************************************************************)
(* Verification model of the crypto trading bot.                           *)
(*                                                                         *)
(*   Spec      : TradeManager (src/src/trade/manager.ts): position         *)
(*               monitoring loops, close execution, restoreMonitoring.     *)
(*   SchedSpec : ListingScheduler (src/unnamed/part_011): timers, the      *)
(*               retry loop, status persistence, initialize() reloads.     *)
(*   PersistSpec : loadJson / saveJson (src/unnamed/part_009) at the       *)
(*               granularity of the file system calls, with failing        *)
(*               calls and process crashes.                                *)
(*   OrderSpec : placeMarketBuy / placeMarketSell (manager.ts) with the    *)
(*               answers of MexcAPI.placeOrder and getOrder.               *)
(*   ShutSpec, ShutFairSpec : TradeManager.shutdown() next to buys of the  *)
(*               trade executor; ShutFairSpec adds the event loop's        *)
(*               fairness for the monitoring loops and queued writes.      *)
(*   RateSpec  : RateLimiter.acquire() (src/src/api/mexc.ts).              *)
(*   JobSpec   : ListingScheduler add / remove / cleanup calls.            *)
(*   ExecutorSpec : the trade executor of TradingBot (part_009) and the    *)
(*               status the scheduler gives one job.                       *)
(*   RetrySpec : the scheduler's retry loop with throwing executors and    *)
(*               the event loop's fairness.                                *)
(*   RunSpec, PruneSpec, ActiveSpec : the scheduler as TradingBot.run      *)
(*               drives it, over the files an earlier process left.        *)
(*   ChangeSpec : ListingScheduler.checkForChanges().                      *)
(*   RestartSpec : the TradeManager with restarts during a close.          *)
(*   StopSpec  : remove / cleanup calls while a retry loop runs.           *)
(*   QueueSpec : saveJson calls issued in a row, with ensureDataDir.       *)
(*   AbortSpec : ShutSpec with failing saves.                              *)
(*                                                                         *)
(* Every action runs the code of one handler from the resumption of one    *)
(* await to the next await (JavaScript runs that stretch atomically).      *)
(* Prices are integers (multiples of 100) so that price * (1 - pct/100)    *)
(* is exact, as it is with decimal.js.                                     *)
(***************************************************************************)
EXTENDS Integers, Sequences, FiniteSets, Bags, TLC

\* ------------------------------------------------------------------ bounds
MaxLoops == 2        \* startMonitoring calls that pass the guard, per process lifetime
MaxTicks == 2        \* getPrice results, per process lifetime
MaxClockTicks == 4   \* advances of the scheduler's clock
MaxReloads == 2      \* initialize() calls, per process lifetime
MaxAttempts == 2     \* executor calls of one retry loop
MaxSaves == 2        \* saveJson calls made by the application
MaxLoads == 1        \* loadJson calls that have not returned
MaxBuys == 1         \* startMonitoring calls of the trade executor that pass the guard
MaxCalls == 3        \* RateLimiter.acquire() calls
MaxApiCalls == 2     \* addScheduledListing / removeScheduledListing calls
MaxJobTicks == 2     \* advances of the clock next to add / remove / cleanup
MaxJobReloads == 1   \* initialize() calls next to add / remove / cleanup
MaxRateTicks == 4    \* advances of the rate limiter's clock
MaxChecks == 3       \* checkForChanges() calls
MaxIssued == 3       \* saveJson calls of one file issued without awaiting

\* --------------------------------------------------------------- constants
Symbols == {"AAAUSDT", "BBBUSDT"}
BuyPrices == {1000}                      \* avgPrice of a filled buy
Prices == {900, 960, 1100, 1200}          \* getPrice results
SellPrices == {900, 1100}                \* avgPrice of a filled sell
NoPrice == 0                             \* null from getPrice / placeMarketSell

stopLossPct == 5
trailingPct == 3

ACTIVE_TRADES_FILE == "active_trades.json"
COMPLETED_TRADES_FILE == "completed_trades.json"
Files == {ACTIVE_TRADES_FILE, COMPLETED_TRADES_FILE}

NoTrade == [market |-> "none"]
NoRef == 0
NoTask == 0
Refs == 1..(MaxLoops + Cardinality(Symbols))

\* the scheduler: time in seconds; the clock advances by half the wait window
SCHEDULED_LISTINGS_FILE == "scheduled_listings.json"
maxWaitAfterListing == 180
RetentionSeconds == 86400
ClockStep == maxWaitAfterListing \div 2
JobKeys == {[symbol |-> "AAA", listingTime |-> ClockStep]}
NoListing == [symbol |-> "none"]
NoTime == -1
NoKey == [symbol |-> "none", listingTime |-> NoTime]
\* no addScheduledListing / removeScheduledListing / cleanup call made yet
NoApiCall == [op |-> "none", key |-> NoKey, result |-> "none", armed |-> {}, count |-> 0]
LRefs == 1..((MaxReloads + 1) * (Cardinality(JobKeys) + 1))
ARefs == 1..(MaxReloads + 1)

VARIABLES
  tradeHeap,        \* TradeState objects: Refs -> trade record or NoTrade
  activeTrades,     \* Map<string, TradeState>: Symbols -> Refs or NoRef
  monitoringTasks,  \* Map<string, AbortController>: Symbols -> loop index or NoTask
  loops,            \* the monitorTrade invocations (index = its AbortController)
  shuttingDown,
  writeQueues,      \* saveJson calls not yet written, per file, in call order
  disk,             \* committed content of the two files
  restore,          \* the restoreMonitoring invocation of this process
  ticks,            \* getPrice results so far
  lastTick          \* the last successful price tick: price, position after the
                    \* update, close initiated

tvars == <<tradeHeap, activeTrades, monitoringTasks, loops, shuttingDown,
           writeQueues, disk, restore, ticks, lastTick>>

VARIABLES now, listings, arrays, scheduledListings, activeTimers, timeouts,
          tradeExecutor, execs, schedQueue, schedFile, init, reloads, added,
          timerStarts, late, succeeded,
          lastCall, \* the last add / remove / cleanup call and what it found
          thrown    \* the jobs for which an executor call has thrown

svars == <<now, listings, arrays, scheduledListings, activeTimers, timeouts,
           tradeExecutor, execs, schedQueue, schedFile, init, reloads, added,
           timerStarts, late, succeeded, lastCall, thrown>>

VARIABLES
  fsTarget,         \* content of DATA_DIR/<filename>, or Absent
  fsTemp,           \* content of DATA_DIR/<filename>.tmp, or Absent
  writeOps,         \* per file, the chain of writeOperation promises that have not
                    \* settled, in creation order (writeQueues holds the last one)
  reading,          \* per file, the loadJson calls whose fs.readFile is in progress
  saves,            \* saveJson calls made by the application so far
  stored,           \* files for which a value has been committed at some time
  expect            \* per file, after a crash during a save over a committed value:
                    \* the value before that save and the value it was writing

pvars == <<fsTarget, fsTemp, writeOps, reading, saves, stored, expect>>

VARIABLES
  orderCall,        \* the placeMarketBuy / placeMarketSell call in progress
  placed            \* how each placeOrder of that call ended, in order

ovars == <<orderCall, placed>>

VARIABLES
  limit,            \* RateLimiter.limit (requestsPerMinute)
  clock,            \* Date.now(), in milliseconds
  requests,         \* RateLimiter.requests
  calls             \* the acquire() calls made so far, in call order

rvars == <<limit, clock, requests, calls>>

VARIABLES
  job,              \* the scheduled job whose retry loop is running: its status
  executor,         \* the trade executor call of that loop, and what it did
  monitored         \* monitoringTasks.has(market)

xvars == <<job, executor, monitored>>

VARIABLES
  lastFileModTime,  \* ListingScheduler.lastFileModTime
  checks            \* the checkForChanges() calls made so far, in call order

cvars == <<lastFileModTime, checks>>

vars == <<tvars, svars, pvars, ovars, rvars, xvars, cvars>>

\* ---------------------------------------------------------- pure helpers

\* Decimal: price.mul(new Decimal(1).minus(pct.div(100)))
MulOneMinusPct(price, pct) == (price * (100 - pct)) \div 100

\* the initial trade state as it would be with stopLossPrice computed from
\* trailingPct
NewTradeOnePct(symbol, buyPrice) ==
  [market |-> symbol, buyPrice |-> buyPrice, highestPrice |-> buyPrice,
   trailingStopPrice |-> MulOneMinusPct(buyPrice, trailingPct),
   stopLossPrice |-> MulOneMinusPct(buyPrice, trailingPct)]

\* startMonitoring lines 313-327: the initial trade state
NewTrade(symbol, buyPrice) ==
  [market |-> symbol, buyPrice |-> buyPrice, highestPrice |-> buyPrice,
   trailingStopPrice |-> MulOneMinusPct(buyPrice, trailingPct),
   stopLossPrice |-> MulOneMinusPct(buyPrice, stopLossPct)]

\* serializeTrade / deserializeTrade: Decimal.toString and new Decimal(string)
\* are exact, the record keeps its fields
serializeTrade(trade) == trade
deserializeTrade(data) == data

\* Array.from(this.activeTrades.values()).map(serializeTrade)
SerializeActive(heap, at) ==
  [s \in Symbols |-> IF at[s] = NoRef THEN NoTrade ELSE serializeTrade(heap[at[s]])]

SymbolsIn(data) == {s \in Symbols : data[s] # NoTrade}

\* objects still referenced: by the map or by a loop between its get and its tick
Used(at, ls) ==
  {at[s] : s \in Symbols} \cup {ls[i].trade : i \in 1..Len(ls)}

Gc(heap, at, ls) ==
  [r \in Refs |-> IF r \in Used(at, ls) THEN heap[r] ELSE NoTrade]

\* identity of a new TradeState object: a slot free since before this step
NewRef(heap) == CHOOSE r \in Refs : heap[r] = NoTrade /\ \A q \in Refs : heap[q] = NoTrade => r <= q

PendingStarts(q) == Cardinality({k \in 1..Len(q) : q[k].kind = "start"})

NewLoop(symbol) ==
  [symbol |-> symbol, pc |-> "new", trade |-> NoRef, aborted |-> FALSE,
   reason |-> "none", completed |-> NoTrade, sellFailed |-> FALSE,
   byRestore |-> FALSE]

Orderings(S) ==
  {f \in [1..Cardinality(S) -> S] : \A a, b \in 1..Cardinality(S) : f[a] = f[b] => a = b}

NoTick == [price |-> NoPrice, trade |-> NoTrade, reason |-> "none"]

\* restoreMonitoring not yet called.  Besides its position (pc, rest) the record
\* keeps what the properties below need: the array it loaded, the loops its
\* startMonitoring calls launched, the calls that were refused, the symbols
\* closed since the process started, and the monitored and the closed symbols
\* when it returned.
NoRestore ==
  [pc |-> "idle", rest |-> <<>>, persisted |-> [s \in Symbols |-> NoTrade],
   launched |-> [s \in Symbols |-> 0], refused |-> {}, closed |-> {},
   monitoredAtReturn |-> {}, closedAtReturn |-> {}]

\* the manager's state as one record, so that handlers compose as functions
M ==
  [tradeHeap |-> tradeHeap, activeTrades |-> activeTrades,
   monitoringTasks |-> monitoringTasks, loops |-> loops, shuttingDown |-> shuttingDown,
   writeQueues |-> writeQueues, disk |-> disk, restore |-> restore,
   ticks |-> ticks, lastTick |-> lastTick, refused |-> FALSE]

\* a finished invocation keeps no locals
Finished(l) ==
  IF l.pc = "done" THEN [l EXCEPT !.reason = "none", !.completed = NoTrade] ELSE l

Commit(m) ==
  /\ tradeHeap' = Gc(m.tradeHeap, m.activeTrades, m.loops)
  /\ activeTrades' = m.activeTrades
  /\ monitoringTasks' = m.monitoringTasks
  /\ loops' = [i \in 1..Len(m.loops) |-> Finished(m.loops[i])]
  /\ shuttingDown' = m.shuttingDown
  /\ writeQueues' = m.writeQueues
  /\ disk' = m.disk
  /\ restore' = m.restore
  /\ ticks' = m.ticks
  /\ lastTick' = m.lastTick
  /\ UNCHANGED <<svars, pvars, ovars, rvars, xvars, cvars>>

\* saveJson(filename, data) up to its await: the write joins the file's queue
saveJson(m, filename, owner, data) ==
  [m EXCEPT !.writeQueues[filename] = Append(@, [owner EXCEPT !.data = data])]

Owner(kind, loop, symbol, caller) ==
  [kind |-> kind, loop |-> loop, symbol |-> symbol, caller |-> caller, data |-> <<>>]

\* saveActiveTrades(): the snapshot is taken at the call
saveActiveTrades(m, owner) ==
  saveJson(m, ACTIVE_TRADES_FILE, owner, SerializeActive(m.tradeHeap, m.activeTrades))

\* AbortController.abort(): a loop asleep has its sleep rejected and lands in
\* the catch block's sleep; a rejection while in the catch block escapes
abortController(ls, c) ==
  [i \in 1..Len(ls) |->
     IF i # c \/ ls[i].aborted THEN ls[i]
     ELSE [ls[i] EXCEPT !.aborted = TRUE,
                        !.pc = IF @ = "sleep" THEN "errSleep"
                               ELSE IF @ = "errSleep" THEN "rejected" ELSE @]]

\* the loop head as it would be without the while condition of line 346
loopHeadNoCancel(m, i) ==
  LET l == m.loops[i] IN
  IF m.activeTrades[l.symbol] = NoRef
  THEN [m EXCEPT !.loops[i].pc = "done", !.loops[i].trade = NoRef]
  ELSE [m EXCEPT !.loops[i].pc = "price", !.loops[i].trade = m.activeTrades[l.symbol]]

\* monitorTrade: the while condition, the activeTrades.get and the getPrice call
loopHead(m, i) ==
  LET l == m.loops[i] IN
  IF l.aborted \/ m.shuttingDown \/ m.activeTrades[l.symbol] = NoRef
  THEN [m EXCEPT !.loops[i].pc = "done", !.loops[i].trade = NoRef]
  ELSE [m EXCEPT !.loops[i].pc = "price", !.loops[i].trade = m.activeTrades[l.symbol]]

\* startMonitoring up to `await this.saveActiveTrades()`
startMonitoringFresh(m, symbol, buyPrice, caller) ==
  LET ref == NewRef(m.tradeHeap)
      m1 == [m EXCEPT !.tradeHeap[ref] = NewTrade(symbol, buyPrice),
                      !.activeTrades[symbol] = ref,
                      !.refused = FALSE]
  IN saveActiveTrades(m1, Owner("start", 0, symbol, caller))

startMonitoring(m, symbol, buyPrice, caller) ==
  IF m.monitoringTasks[symbol] # NoTask
  THEN [m EXCEPT !.refused = TRUE]
  ELSE startMonitoringFresh(m, symbol, buyPrice, caller)

\* startMonitoring after its save, as it would be without line 335: the loop
\* is launched but its controller is not registered in monitoringTasks
startMonitoringResumeUnregistered(m, symbol, caller) ==
  LET c == Len(m.loops) + 1
      l == [NewLoop(symbol) EXCEPT !.byRestore = (caller = "restore")]
      m1 == [m EXCEPT !.loops = Append(@, l)]
  IN loopHead(m1, c)

\* startMonitoring after its save: register the controller, launch the loop
startMonitoringResume(m, symbol, caller) ==
  LET c == Len(m.loops) + 1
      l == [NewLoop(symbol) EXCEPT !.byRestore = (caller = "restore")]
      m1 == [m EXCEPT !.monitoringTasks[symbol] = c, !.loops = Append(@, l)]
  IN loopHead(m1, c)

\* restoreMonitoring: the for loop, from one await to the next.  The
\* deserialized object set at line 89 is replaced at once by the one
\* startMonitoring builds, unless startMonitoring refuses.
RECURSIVE restoreLoop(_, _)
restoreLoop(m, trades) ==
  IF trades = <<>>
  THEN [m EXCEPT !.restore.pc = "done", !.restore.rest = <<>>,
                 !.restore.monitoredAtReturn =
                     {s \in Symbols : m.monitoringTasks[s] # NoTask},
                 !.restore.closedAtReturn = m.restore.closed]
  ELSE LET trade == deserializeTrade(Head(trades))
           ref == NewRef(m.tradeHeap)
           m1 == [m EXCEPT !.tradeHeap[ref] = trade,
                           !.activeTrades[trade.market] = ref]
           m2 == startMonitoring(m, trade.market, trade.buyPrice, "restore")
       IN IF m2.refused
          THEN restoreLoop([m1 EXCEPT !.restore.refused = @ \cup {trade.market}],
                           Tail(trades))
          ELSE [m2 EXCEPT !.restore.pc = "start", !.restore.rest = Tail(trades)]

\* the tick's update as it would be without the guard of line 363: the stop
\* follows the price down as well as up
updateTradeNoGuard(trade, currentPrice) ==
  [trade EXCEPT !.highestPrice = currentPrice,
                !.trailingStopPrice = MulOneMinusPct(currentPrice, trailingPct)]

\* monitorTrade lines 362-375: the tick's update of the position
updateTrade(trade, currentPrice) ==
  IF currentPrice > trade.highestPrice
  THEN [trade EXCEPT !.highestPrice = currentPrice,
                     !.trailingStopPrice = MulOneMinusPct(currentPrice, trailingPct)]
  ELSE trade

\* the exit decision as it would be without the profit condition of line 381
exitDecisionNoProfitGuard(trade, currentPrice) ==
  IF currentPrice < trade.trailingStopPrice
  THEN "trailing_stop"
  ELSE IF currentPrice < trade.stopLossPrice THEN "stop_loss" ELSE "none"

\* monitorTrade lines 380-396: which close, if any, the tick initiates
exitDecision(trade, currentPrice) ==
  IF currentPrice < trade.trailingStopPrice /\ currentPrice > trade.buyPrice
  THEN "trailing_stop"
  ELSE IF currentPrice < trade.stopLossPrice THEN "stop_loss" ELSE "none"

\* executeSell lines 451-456: drop the position, abort and drop its controller, save
finishSell(m, i) ==
  LET symbol == m.loops[i].symbol
      m1 == [m EXCEPT !.activeTrades[symbol] = NoRef,
                      !.loops = abortController(@, m.monitoringTasks[symbol]),
                      !.monitoringTasks[symbol] = NoTask,
                      !.restore.closed = @ \cup {symbol}]
      m2 == [m1 EXCEPT !.loops[i].pc = "finalSave"]
  IN saveActiveTrades(m2, Owner("loop", i, symbol, "loop"))

\* ------------------------------------------------------------ actions
\* the main loop's handleNewListing after a filled buy: startMonitoring(...)
HandleNewListing(symbol, buyPrice) ==
  /\ restore.pc # "idle"
  /\ ~shuttingDown
  /\ Len(loops) + PendingStarts(writeQueues[ACTIVE_TRADES_FILE])
       + (IF restore.pc = "loading" THEN Cardinality(Symbols) ELSE Len(restore.rest))
       < MaxLoops
  /\ Commit(startMonitoring(M, symbol, buyPrice, "env"))

\* restoreMonitoring() is called: await loadJson
RestoreCall ==
  /\ restore.pc = "idle"
  /\ Commit([M EXCEPT !.restore.pc = "loading"])

\* loadJson resolves with the file's array
RestoreLoaded(order) ==
  /\ restore.pc = "loading"
  /\ LET data == disk[ACTIVE_TRADES_FILE]
         trades == [k \in 1..Len(order) |-> data[order[k]]]
     IN Commit(restoreLoop([M EXCEPT !.restore.persisted = data], trades))

\* getPrice resolves for loop i: the rest of the iteration up to its next await
\* (a call in flight at shutdown returns, with null once the budget is used up)
PriceResult(i, price) ==
  /\ loops[i].pc = "price"
  /\ ticks < MaxTicks \/ (shuttingDown /\ price = NoPrice)
  /\ LET l == loops[i]
         m0 == [M EXCEPT !.loops[i].trade = NoRef,
                         !.ticks = IF @ < MaxTicks THEN @ + 1 ELSE @]
     IN IF price = NoPrice
        THEN Commit([m0 EXCEPT !.loops[i].pc = "sleep"])
        ELSE LET trade == updateTrade(tradeHeap[l.trade], price)
                 reason == exitDecision(trade, price)
                 m1 == [m0 EXCEPT !.tradeHeap[l.trade] = trade,
                                  !.lastTick = [price |-> price, trade |-> trade,
                                                reason |-> reason]]
             IN IF reason = "none"
                THEN Commit(saveActiveTrades([m1 EXCEPT !.loops[i].pc = "saving"],
                                             Owner("loop", i, l.symbol, "loop")))
                ELSE IF activeTrades[l.symbol] = NoRef
                THEN Commit([m1 EXCEPT !.loops[i].pc = "done"])
                ELSE Commit([m1 EXCEPT !.loops[i].pc = "selling",
                                       !.loops[i].reason = reason])

\* executeSell for loop i: getSymbolPrecision and placeMarketSell resolve;
\* recordCompletedTrade looks the position up again and records nothing if it
\* is gone
SellResult(i, sellPrice) ==
  /\ loops[i].pc = "selling"
  /\ LET l == loops[i] IN
     IF sellPrice = NoPrice
     THEN Commit([M EXCEPT !.loops[i].pc = "done", !.loops[i].sellFailed = TRUE])
     ELSE IF activeTrades[l.symbol] = NoRef
     THEN Commit(finishSell(M, i))
     ELSE Commit([M EXCEPT !.loops[i].pc = "recLoad",
                           !.loops[i].completed =
                              [market |-> l.symbol,
                               buyPrice |-> tradeHeap[activeTrades[l.symbol]].buyPrice,
                               sellPrice |-> sellPrice,
                               triggerReason |-> l.reason]])

\* recordCompletedTrade: loadJson resolves, push, saveJson
RecLoaded(i) ==
  /\ loops[i].pc = "recLoad"
  /\ Commit(saveJson([M EXCEPT !.loops[i].pc = "recSave", !.loops[i].reason = "none",
                               !.loops[i].completed = NoTrade],
                     COMPLETED_TRADES_FILE,
                     Owner("loop", i, loops[i].symbol, "loop"),
                     Append(disk[COMPLETED_TRADES_FILE], loops[i].completed)))

\* the oldest queued write of a file is committed and its caller resumes
SaveDone(filename) ==
  /\ writeQueues[filename] # <<>>
  /\ LET e == Head(writeQueues[filename])
         m0 == [M EXCEPT !.writeQueues[filename] = Tail(@),
                         !.disk[filename] = e.data]
     IN IF e.kind = "start"
        THEN LET m1 == startMonitoringResume(m0, e.symbol, e.caller)
             IN IF e.caller = "restore"
                THEN Commit(restoreLoop([m1 EXCEPT !.restore.launched[e.symbol] = @ + 1],
                                        m1.restore.rest))
                ELSE Commit(m1)
        ELSE IF e.kind = "shutdown"
        THEN Commit(m0)
        ELSE IF loops[e.loop].pc = "saving"
        THEN Commit([m0 EXCEPT !.loops[e.loop].pc = "sleep"])
        ELSE IF loops[e.loop].pc = "recSave"
        THEN Commit(finishSell(m0, e.loop))
        ELSE Commit([m0 EXCEPT !.loops[e.loop].pc = "done"])

\* the sleep of loop i resolves: next iteration
SleepDone(i) ==
  /\ loops[i].pc \in {"sleep", "errSleep"}
  /\ Commit(loopHead(M, i))

\* What active_trades.json holds when the process starts: nothing (first
\* start), or what an earlier run saved before it stopped.
RisenTrade ==
  [market |-> "AAAUSDT", buyPrice |-> 1000, highestPrice |-> 1200,
   trailingStopPrice |-> MulOneMinusPct(1200, trailingPct),
   stopLossPrice |-> MulOneMinusPct(1000, stopLossPct)]

InitialActiveTrades ==
  { [s \in Symbols |-> NoTrade],
    [s \in Symbols |-> IF s = "AAAUSDT" THEN RisenTrade ELSE NewTrade(s, 1000)] }

\* the ListingScheduler after construction, over the given file
SchedStart(file) ==
  /\ now = 0
  /\ listings = [r \in LRefs |-> NoListing]
  /\ arrays = [a \in ARefs |-> <<>>]
  /\ scheduledListings = 1
  /\ activeTimers = [k \in JobKeys |-> NoRef]
  /\ timeouts = {}
  /\ tradeExecutor = FALSE
  /\ execs = EmptyBag
  /\ schedQueue = <<>>
  /\ schedFile = file
  /\ init = "idle"
  /\ reloads = 0
  /\ added = {}
  /\ timerStarts = [k \in JobKeys |-> 0]
  /\ succeeded = {}
  /\ late = [k \in JobKeys |-> [by |-> NoTime, outcome |-> "none"]]
  /\ lastCall = NoApiCall
  /\ thrown = {}

\* the TradeManager after construction, over the given active_trades.json
TradeStart(persisted) ==
  /\ tradeHeap = [r \in Refs |-> NoTrade]
  /\ activeTrades = [s \in Symbols |-> NoRef]
  /\ monitoringTasks = [s \in Symbols |-> NoTask]
  /\ loops = <<>>
  /\ shuttingDown = FALSE
  /\ writeQueues = [f \in Files |-> <<>>]
  /\ disk = [f \in Files |-> IF f = ACTIVE_TRADES_FILE THEN persisted ELSE <<>>]
  /\ restore = NoRestore
  /\ ticks = 0
  /\ lastTick = NoTick

\* the persistence module after import, over the given data directory
Absent == "absent"
Partial == "partial"
DefaultValue == "default"
Values == {"v2"}

PersistStart(dir) ==
  /\ fsTarget = dir
  /\ fsTemp = [f \in Files |-> Absent]
  /\ writeOps = [f \in Files |-> <<>>]
  /\ reading = [f \in Files |-> 0]
  /\ saves = 0
  /\ stored = {f \in Files : dir[f] # Absent}
  /\ expect = [f \in Files |-> {}]

\* no placeMarketBuy / placeMarketSell call has been made
maxAttempts == 3
NoCall == [side |-> "none", attempt |-> 0, pc |-> "idle", result |-> "none"]

OrderStart ==
  /\ orderCall = NoCall
  /\ placed = <<>>

\* a scheduled job whose retry loop has started, before its first executor call
maxTickerRetries == 3
NoExecutorCall ==
  [pc |-> "idle", attempts |-> 0, retries |-> 0, ticker |-> FALSE,
   buyResult |-> "none", monitoring |-> "none"]

\* the scheduler's change detection after construction (line 44)
ChangeStart ==
  /\ lastFileModTime = 0
  /\ checks = <<>>

ExecutorStart(has) ==
  /\ job = [status |-> "active", attempts |-> 0]
  /\ executor = NoExecutorCall
  /\ monitored = has

\* the RateLimiter after construction with the given requestsPerMinute
window == 60000
Limits == {1, 2}

RateStart(requestsPerMinute) ==
  /\ limit = requestsPerMinute
  /\ clock = 0
  /\ requests = <<>>
  /\ calls = <<>>

Init ==
  /\ \E persisted \in InitialActiveTrades : TradeStart(persisted)
  /\ SchedStart(<<>>)
  /\ PersistStart([f \in Files |-> Absent])
  /\ OrderStart
  /\ RateStart(1)
  /\ ExecutorStart(FALSE)
  /\ ChangeStart

Next ==
  \/ \E s \in Symbols, p \in BuyPrices : HandleNewListing(s, p)
  \/ RestoreCall
  \/ \E o \in Orderings(SymbolsIn(disk[ACTIVE_TRADES_FILE])) : RestoreLoaded(o)
  \/ \E i \in 1..Len(loops), p \in Prices \cup {NoPrice} : PriceResult(i, p)
  \/ \E i \in 1..Len(loops), p \in SellPrices \cup {NoPrice} : SellResult(i, p)
  \/ \E i \in 1..Len(loops) : RecLoaded(i)
  \/ \E f \in Files : SaveDone(f)
  \/ \E i \in 1..Len(loops) : SleepDone(i)

Spec == Init /\ [][Next]_vars

\* ------------------------------------------------------------ scheduler
\* A listing is the object's symbol, listingTime, status, createdAt and
\* tradedAt (quoteCurrency and notes are carried along unchanged).
Listing(key, status, createdAt) ==
  [symbol |-> key.symbol, listingTime |-> key.listingTime, status |-> status,
   createdAt |-> createdAt, tradedAt |-> NoTime]

\* setupListingTimer line 217: `${listing.symbol}-${listing.listingTime}`
timerId(listing) == [symbol |-> listing.symbol, listingTime |-> listing.listingTime]

S ==
  [now |-> now, listings |-> listings, arrays |-> arrays,
   scheduledListings |-> scheduledListings, activeTimers |-> activeTimers,
   timeouts |-> timeouts, tradeExecutor |-> tradeExecutor, execs |-> execs,
   schedQueue |-> schedQueue, schedFile |-> schedFile, init |-> init,
   reloads |-> reloads, added |-> added, timerStarts |-> timerStarts, late |-> late,
   succeeded |-> succeeded, lastCall |-> lastCall, thrown |-> thrown]

\* arrays and listing objects something still refers to
UsedArrays(s) ==
  {s.scheduledListings} \cup {s.schedQueue[k].array : k \in 1..Len(s.schedQueue)}

UsedListings(s) ==
  UNION {{s.arrays[a][k] : k \in 1..Len(s.arrays[a])} : a \in UsedArrays(s)}
    \cup {t.listing : t \in s.timeouts}
    \cup {s.schedQueue[k].listing : k \in 1..Len(s.schedQueue)}

NewLRef(heap) ==
  CHOOSE r \in LRefs : heap[r] = NoListing /\ \A q \in LRefs : heap[q] = NoListing => r <= q

NewARef(s) ==
  CHOOSE a \in ARefs : a \notin UsedArrays(s) /\ \A b \in ARefs : b \notin UsedArrays(s) => a <= b

SchedCommit(s) ==
  /\ now' = s.now
  /\ listings' = [r \in LRefs |-> IF r \in UsedListings(s) THEN s.listings[r] ELSE NoListing]
  /\ arrays' = [a \in ARefs |-> IF a \in UsedArrays(s) THEN s.arrays[a] ELSE <<>>]
  /\ scheduledListings' = s.scheduledListings
  /\ activeTimers' = s.activeTimers
  /\ timeouts' = s.timeouts
  /\ tradeExecutor' = s.tradeExecutor
  /\ execs' = s.execs
  /\ schedQueue' = s.schedQueue
  /\ schedFile' = s.schedFile
  /\ init' = s.init
  /\ reloads' = s.reloads
  /\ added' = s.added
  /\ timerStarts' = s.timerStarts
  /\ succeeded' = s.succeeded
  /\ late' = s.late
  /\ lastCall' = s.lastCall
  /\ thrown' = s.thrown
  /\ UNCHANGED <<tvars, pvars, ovars, rvars, xvars, cvars>>

\* saveScheduledListings(): saveJson is handed the array itself, which is
\* stringified when the queued write runs
saveScheduledListings(s, kind, listing) ==
  [s EXCEPT !.schedQueue =
      Append(@, [kind |-> kind, listing |-> listing, array |-> s.scheduledListings])]

\* scheduledListings.find(l => l.symbol === symbol && l.listingTime === listingTime)
FindListing(s, key) ==
  LET arr == s.arrays[s.scheduledListings]
      hits == {k \in 1..Len(arr) : timerId(s.listings[arr[k]]) = key}
  IN IF hits = {} THEN NoRef
     ELSE arr[CHOOSE k \in hits : \A j \in hits : k <= j]

markListingTraded(s, key) ==
  LET r == FindListing(s, key) IN
  IF r = NoRef THEN s
  ELSE saveScheduledListings([s EXCEPT !.listings[r].status = "completed",
                                       !.listings[r].tradedAt = s.now],
                             "mark", NoRef)

markListingMissed(s, key) ==
  LET r == FindListing(s, key) IN
  IF r = NoRef THEN s
  ELSE saveScheduledListings([s EXCEPT !.listings[r].status = "missed"], "mark", NoRef)

\* executeScheduledTrade lines 285-289: attempts++ and the executor is called
invokeExecutor(s, e) ==
  [s EXCEPT !.execs = @ (+) SetToBag({[e EXCEPT !.pc = "calling", !.attempts = @ + 1]})]

\* executeScheduledTrade line 285: the while condition, then the call or the
\* exit to markListingMissed
retryLoop(s, e) ==
  IF s.now - e.startTime < maxWaitAfterListing
  THEN invokeExecutor(s, e)
  ELSE markListingMissed(s, e.key)

\* executeScheduledTrade up to its first await
executeScheduledTrade(s, ref) ==
  LET key == timerId(s.listings[ref]) IN
  IF ~s.tradeExecutor
  THEN markListingMissed(s, key)
  ELSE retryLoop([s EXCEPT !.listings[ref].status = "active"],
                 [key |-> key, pc |-> "new", startTime |-> s.now, attempts |-> 0])

\* setupListingTimer as it would be without the existing-timer check of
\* lines 220-223
setupListingTimerNoCheck(s, ref) ==
  LET listing == s.listings[ref]
      key == timerId(listing)
  IN IF listing.listingTime <= s.now
     THEN IF s.now <= listing.listingTime + maxWaitAfterListing
          THEN executeScheduledTrade(
                 [s EXCEPT !.late[key] =
                     [by |-> s.now - listing.listingTime,
                      outcome |-> IF s.tradeExecutor THEN "executed" ELSE "noExecutor"]],
                 ref)
          ELSE markListingMissed(
                 [s EXCEPT !.late[key] = [by |-> s.now - listing.listingTime,
                                          outcome |-> "missed"]],
                 key)
     ELSE [s EXCEPT !.timeouts = @ \cup {[key |-> key, listing |-> ref,
                                          due |-> listing.listingTime]},
                    !.activeTimers[key] = ref]

\* setupListingTimer: existing timer, late listing (inside or outside the
\* wait window), or a new timeout
setupListingTimer(s, ref) ==
  LET listing == s.listings[ref]
      key == timerId(listing)
  IN IF s.activeTimers[key] # NoRef THEN s
     ELSE IF listing.listingTime <= s.now
     THEN IF s.now <= listing.listingTime + maxWaitAfterListing
          THEN executeScheduledTrade(
                 [s EXCEPT !.late[key] =
                     [by |-> s.now - listing.listingTime,
                      outcome |-> IF s.tradeExecutor THEN "executed" ELSE "noExecutor"]],
                 ref)
          ELSE markListingMissed(
                 [s EXCEPT !.late[key] = [by |-> s.now - listing.listingTime,
                                          outcome |-> "missed"]],
                 key)
     ELSE [s EXCEPT !.timeouts = @ \cup {[key |-> key, listing |-> ref,
                                          due |-> listing.listingTime]},
                    !.activeTimers[key] = ref]

\* JSON.parse of the file: one new object per entry
RECURSIVE loadObjects(_, _, _)
loadObjects(heap, entries, refs) ==
  IF entries = <<>> THEN [heap |-> heap, refs |-> refs]
  ELSE LET r == NewLRef(heap)
       IN loadObjects([heap EXCEPT ![r] = Head(entries)], Tail(entries), Append(refs, r))

\* loadScheduledListings line 70: the filter's predicate
keepListing(listing, cutoff) ==
  listing.status = "pending" \/ listing.status = "active" \/ listing.createdAt > cutoff

\* initialize lines 329-332: timers for the listings that are pending now
RECURSIVE setupTimers(_, _)
setupTimers(s, refs) ==
  IF refs = <<>> THEN s
  ELSE setupTimers(setupListingTimer(s, Head(refs)), Tail(refs))

initializeTimers(s) ==
  LET arr == s.arrays[s.scheduledListings]
      isPending(r) == s.listings[r].status = "pending"
  IN setupTimers([s EXCEPT !.init = "idle"], SelectSeq(arr, isPending))

\* loadScheduledListings once loadJson has resolved (the entries the filter
\* drops are never referred to again, so no object is kept for them)
loadScheduledListings(s) ==
  LET cutoff == s.now - RetentionSeconds
      keep(l) == keepListing(l, cutoff)
      kept == SelectSeq(s.schedFile, keep)
      ld == loadObjects(s.listings, kept, <<>>)
      a == NewARef(s)
      s1 == [s EXCEPT !.listings = ld.heap, !.arrays[a] = ld.refs,
                      !.scheduledListings = a]
  IN IF Len(kept) < Len(s.schedFile)
     THEN saveScheduledListings([s1 EXCEPT !.init = "pruning"], "init", NoRef)
     ELSE initializeTimers(s1)

\* initialize(): loadJson resolves and the call runs up to its next await
Initialize ==
  /\ init = "idle"
  /\ reloads < MaxReloads
  /\ SchedCommit(loadScheduledListings([S EXCEPT !.reloads = @ + 1]))

SetTradeExecutor ==
  /\ ~tradeExecutor
  /\ SchedCommit([S EXCEPT !.tradeExecutor = TRUE])

\* addScheduledListing as it would be without the exists check of lines 108-115
addScheduledListingNoCheck(s, key) ==
  LET r == NewLRef(s.listings) IN
  saveScheduledListings(
    [s EXCEPT !.listings[r] = Listing(key, "pending", s.now),
              !.arrays[s.scheduledListings] = Append(@, r)],
    "add", r)

\* addScheduledListing up to its return (the key exists) or up to
\* `await this.saveScheduledListings()`
addScheduledListing(s, key) ==
  LET r == NewLRef(s.listings) IN
  IF FindListing(s, key) # NoRef
  THEN s
  ELSE saveScheduledListings(
         [s EXCEPT !.listings[r] = Listing(key, "pending", s.now),
                   !.arrays[s.scheduledListings] = Append(@, r)],
         "add", r)

\* addScheduledListing is called; a job is submitted once
AddScheduledListing(key) ==
  /\ key \notin added
  /\ SchedCommit(addScheduledListing([S EXCEPT !.added = @ \cup {key}], key))

\* the oldest queued write of scheduled_listings.json runs; its caller resumes
SchedSaveDone ==
  /\ schedQueue # <<>>
  /\ LET e == Head(schedQueue)
         arr == arrays[e.array]
         s0 == [S EXCEPT !.schedQueue = Tail(@),
                         !.schedFile = [k \in 1..Len(arr) |-> listings[arr[k]]]]
     IN IF e.kind = "init" THEN SchedCommit(initializeTimers(s0))
        ELSE IF e.kind = "add" THEN SchedCommit(setupListingTimer(s0, e.listing))
        ELSE SchedCommit(s0)

\* the timeout's callback, lines 246-251
TimerFire(t) ==
  /\ t \in timeouts
  /\ t.due <= now
  /\ SchedCommit(executeScheduledTrade(
       [S EXCEPT !.timeouts = @ \ {t},
                 !.activeTimers[t.key] = NoRef,
                 !.timerStarts[t.key] = @ + 1],
       t.listing))

\* executeScheduledTrade lines 288-307: the executor's promise settles with
\* true (markListingTraded, return), with false or with a rejection (sleep)
executorSettled(s, e, result) ==
  LET s0 == [s EXCEPT !.execs = @ (-) SetToBag({e})]
  IN IF result = "true"
     THEN markListingTraded([s0 EXCEPT !.succeeded = @ \cup {e.key}], e.key)
     ELSE [s0 EXCEPT !.execs = @ (+) SetToBag({[e EXCEPT !.pc = "sleeping"]})]

\* the executor's promise settles: true, false, or a rejection
ExecutorResult(e, result) ==
  /\ BagIn(e, execs)
  /\ e.pc = "calling"
  /\ SchedCommit(executorSettled(S, e, result))

\* sleep(retryInterval) resolves: back to the while condition
ExecWake(e) ==
  /\ BagIn(e, execs)
  /\ e.pc = "sleeping"
  /\ e.attempts < MaxAttempts \/ now - e.startTime >= maxWaitAfterListing
  /\ SchedCommit(retryLoop([S EXCEPT !.execs = @ (-) SetToBag({e})], e))

\* time passes by ClockStep; a timeout fires before the clock moves past its
\* due time, and a queued file write (milliseconds) runs before the clock moves
Tick ==
  /\ now < MaxClockTicks * ClockStep
  /\ \A t \in timeouts : t.due > now
  /\ schedQueue = <<>>
  /\ SchedCommit([S EXCEPT !.now = @ + ClockStep])

\* what scheduled_listings.json holds when the process starts
InitialListings ==
  { <<>>,
    <<Listing([symbol |-> "OLD", listingTime |-> 0 - 2 * RetentionSeconds],
              "completed", 0 - 2 * RetentionSeconds),
      Listing(CHOOSE k \in JobKeys : TRUE, "pending", 0)>> }

SchedInit ==
  /\ TradeStart([s \in Symbols |-> NoTrade])
  /\ \E file \in InitialListings : SchedStart(file)
  /\ PersistStart([f \in Files |-> Absent])
  /\ OrderStart
  /\ RateStart(1)
  /\ ExecutorStart(FALSE)
  /\ ChangeStart

SchedNext ==
  \/ Initialize
  \/ SetTradeExecutor
  \/ \E k \in JobKeys : AddScheduledListing(k)
  \/ SchedSaveDone
  \/ \E t \in timeouts : TimerFire(t)
  \/ \E e \in BagToSet(execs), r \in {"true", "false", "throw"} : ExecutorResult(e, r)
  \/ \E e \in BagToSet(execs) : ExecWake(e)
  \/ Tick

SchedSpec == SchedInit /\ [][SchedNext]_vars

\* ------------------------------------------------------------ properties
Running(l) == l.pc \notin {"done", "finalSave", "rejected"}

RunningLoops(symbol) ==
  {i \in 1..Len(loops) : loops[i].symbol = symbol /\ Running(loops[i])}

\* C1: after a failed sell (placeMarketSell returned null) the position stays
\* in the active set and its monitoring loop keeps running: no position is
\* open with a failed sell behind it and no running loop.
C1_FailedSellKeepsMonitoring ==
  \A i \in 1..Len(loops) :
    (loops[i].sellFailed /\ activeTrades[loops[i].symbol] # NoRef)
      => RunningLoops(loops[i].symbol) # {}

\* C2: for every symbol at most one monitoring loop runs at any time, also
\* when two startMonitoring calls for the symbol overlap.
C2_OneLoopPerSymbol ==
  \A s \in Symbols : Cardinality(RunningLoops(s)) <= 1

\* C3: the trailingStopPrice of a position (the TradeState object its
\* monitoring loop updates) never decreases from one step to the next,
\* whatever prices or failed fetches the loop processes.
C3_TrailingStopNeverDecreases ==
  [][\A r \in Refs :
       (tradeHeap[r] # NoTrade /\ tradeHeap'[r] # NoTrade)
         => tradeHeap'[r].trailingStopPrice >= tradeHeap[r].trailingStopPrice]_vars

\* a tick below the peak of a position whose stop has risen above its initial value
C3_Witness ==
  /\ lastTick.price # NoPrice
  /\ lastTick.price < lastTick.trade.highestPrice
  /\ lastTick.trade.trailingStopPrice
       > MulOneMinusPct(lastTick.trade.buyPrice, trailingPct)

\* C4: on a successful tick, after the peak update, the close initiated is
\* trailing_stop exactly when currentPrice < trailingStopPrice and
\* currentPrice > buyPrice, otherwise stop_loss exactly when
\* currentPrice < stopLossPrice, otherwise none; a loop waiting for its sell
\* carries one of the two reasons.
C4_ExitDecision ==
  /\ lastTick.price # NoPrice =>
       LET p == lastTick.price
           t == lastTick.trade
           trailing == p < t.trailingStopPrice /\ p > t.buyPrice
       IN /\ (lastTick.reason = "trailing_stop") <=> trailing
          /\ (lastTick.reason = "stop_loss") <=> (~trailing /\ p < t.stopLossPrice)
          /\ (lastTick.reason = "none") <=> (~trailing /\ ~(p < t.stopLossPrice))
          /\ (lastTick.reason = "trailing_stop") => p > t.buyPrice
  /\ \A i \in 1..Len(loops) :
       loops[i].pc = "selling" => loops[i].reason \in {"trailing_stop", "stop_loss"}

\* a tick above the buy price and below the trailing stop initiated a
\* trailing_stop close
C4_Witness ==
  /\ lastTick.reason = "trailing_stop"
  /\ \E i \in 1..Len(loops) : loops[i].pc = "selling" /\ loops[i].reason = "trailing_stop"

\* C5: a restored position resumes with a highestPrice and a trailingStopPrice
\* not lower than the values persisted for it before the restart.
C5_RestoreKeepsTrailingStop ==
  \A s \in Symbols :
    (restore.persisted[s] # NoTrade /\ s \notin restore.closed
       /\ activeTrades[s] # NoRef)
      => /\ tradeHeap[activeTrades[s]].highestPrice >= restore.persisted[s].highestPrice
         /\ tradeHeap[activeTrades[s]].trailingStopPrice
              >= restore.persisted[s].trailingStopPrice

Rank(status) == IF status = "pending" THEN 0 ELSE IF status = "active" THEN 1 ELSE 2

\* a status may stay, or move to a later stage
Forward(a, b) == a = b \/ Rank(a) < Rank(b)

\* the status of job `key` in the in-memory list ("absent" if not listed)
MemoryStatus(s, key) ==
  IF FindListing(s, key) = NoRef THEN "absent" ELSE s.listings[FindListing(s, key)].status

\* the status of job `key` in scheduled_listings.json ("absent" if not listed)
FileStatus(file, key) ==
  LET hits == {k \in 1..Len(file) : timerId(file[k]) = key}
  IN IF hits = {} THEN "absent" ELSE file[CHOOSE k \in hits : \A j \in hits : k <= j].status

\* the executor is invoked for job `key` in this step
Invoked(key) ==
  \E e \in BagToSet(execs') :
    e.key = key /\ e.pc = "calling" /\ CopiesIn(e, execs') > CopiesIn(e, execs)

\* C7: a job's status, in the in-memory list and in the file, never moves from
\* a later stage back to an earlier one (pending, then active, then completed
\* or missed), and a completed or missed job keeps its status.
C7_StatusMonotonic ==
  [][\A k \in JobKeys :
       /\ (MemoryStatus(S, k) # "absent" /\ MemoryStatus(S', k) # "absent")
            => Forward(MemoryStatus(S, k), MemoryStatus(S', k))
       /\ (FileStatus(schedFile, k) # "absent" /\ FileStatus(schedFile', k) # "absent")
            => Forward(FileStatus(schedFile, k), FileStatus(schedFile', k))]_vars

C9_LateJob ==
  [][\A k \in JobKeys :
       /\ (late'[k].by >= 0 /\ late'[k].by <= maxWaitAfterListing)
            => late'[k].outcome = "executed"
       /\ late'[k].by > maxWaitAfterListing => late'[k].outcome = "missed"
       /\ late[k].outcome = "missed" => ~Invoked(k)]_vars

\* C10: the executor is not invoked for a job after
\* listingTime + maxWaitAfterListing, whenever its retry loop started.
C10_StopsAtDeadline ==
  [][\A k \in JobKeys : Invoked(k) => now' <= k.listingTime + maxWaitAfterListing]_vars

\* C11: when the executor returns true for a job, the job is marked completed
\* with a tradedAt timestamp, and from then on the executor is not invoked for
\* that job again.
C11_NoInvocationAfterSuccess ==
  [][\A k \in JobKeys :
       /\ (k \in succeeded' /\ k \notin succeeded)
            => /\ MemoryStatus(S', k) = "completed"
               /\ listings'[FindListing(S', k)].tradedAt # NoTime
       /\ k \in succeeded => ~Invoked(k)]_vars

\* ------------------------------------------------ closed-position history
IsPrefix(a, b) == Len(a) <= Len(b) /\ \A k \in 1..Len(a) : b[k] = a[k]

\* C16: the closed-position history in completed_trades.json only grows at
\* its end: no step removes or changes a record that was written.
C16_HistoryAppendOnly ==
  [][IsPrefix(disk[COMPLETED_TRADES_FILE], disk'[COMPLETED_TRADES_FILE])]_vars

\* C17: when placeMarketSell returns a fill price, executeSell records one
\* ClosedPosition for the symbol with the triggering reason, the record is
\* added to the history as it stands, the symbol leaves activeTrades and
\* monitoringTasks, the active set is persisted without it, and the loop
\* makes no further tick.
C17_SuccessfulSellCloses ==
  [][\A i \in 1..Len(loops) :
       LET l == loops[i]
           n == loops'[i]
           history == disk[COMPLETED_TRADES_FILE]
           written == disk'[COMPLETED_TRADES_FILE]
       IN /\ (l.pc = "selling" /\ n.pc # "selling" /\ ~n.sellFailed)
               => /\ n.pc = "recLoad"
                  /\ n.completed.market = l.symbol
                  /\ n.completed.triggerReason = l.reason
          /\ (l.pc = "recSave" /\ n.pc = "finalSave")
               => /\ Len(written) = Len(history) + 1
                  /\ IsPrefix(history, written)
                  /\ written[Len(written)].market = l.symbol
                  /\ activeTrades'[l.symbol] = NoRef
                  /\ monitoringTasks'[l.symbol] = NoTask
          /\ (l.pc = "finalSave" /\ n.pc = "done")
               => disk'[ACTIVE_TRADES_FILE][l.symbol] = NoTrade
          /\ l.pc \in {"recLoad", "recSave", "finalSave"}
               => n.pc \in {"recLoad", "recSave", "finalSave", "done"}]_vars

\* C18: every ClosedPosition written to the history with reason trailing_stop
\* has a sell price above its buy price.
C18_TrailingStopNoLoss ==
  \A k \in 1..Len(disk[COMPLETED_TRADES_FILE]) :
    LET c == disk[COMPLETED_TRADES_FILE][k]
    IN c.triggerReason = "trailing_stop" => c.sellPrice > c.buyPrice

\* ------------------------------------------- loadJson / saveJson, step by step
NoValue == "none"

P ==
  [fsTarget |-> fsTarget, fsTemp |-> fsTemp, writeOps |-> writeOps,
   reading |-> reading, saves |-> saves, stored |-> stored, expect |-> expect]

PersistCommit(p) ==
  /\ fsTarget' = p.fsTarget
  /\ fsTemp' = p.fsTemp
  /\ writeOps' = p.writeOps
  /\ reading' = p.reading
  /\ saves' = p.saves
  /\ stored' = p.stored
  /\ expect' = p.expect
  /\ UNCHANGED <<tvars, svars, ovars, rvars, xvars, cvars>>

\* the operation is between the start of its writeFile and its settlement
InSequence(o) == o.step \in {"writeFile", "unlink", "rename", "cleanup"}

\* the callback of a writeOperation runs (its previous write has settled) and
\* issues fs.writeFile
startWrite(p, f, k) ==
  [p EXCEPT !.writeOps[f][k].step = "writeFile",
            !.writeOps[f][k].before = p.fsTarget[f],
            !.expect[f] = {}]

\* saveJson without the chaining on the previous write of the file
writeOperationUnchained(p, filename, data, caller) ==
  startWrite([p EXCEPT !.writeOps[filename] =
                Append(@, [data |-> data, step |-> "queued",
                           before |-> NoValue, caller |-> caller])],
             filename, Len(p.writeOps[filename]) + 1)

\* saveJson, lines 472-511: the new writeOperation is chained on the file's
\* entry in writeQueues (the last operation of the file that has not settled,
\* else a resolved promise) and becomes the entry; chained on a resolved
\* promise its callback runs in the next microtask
writeOperation(p, filename, data, caller) ==
  LET p1 == [p EXCEPT !.writeOps[filename] =
               Append(@, [data |-> data, step |-> "queued",
                          before |-> NoValue, caller |-> caller])]
  IN IF p.writeOps[filename] = <<>> THEN startWrite(p1, filename, 1) ELSE p1

Remove(q, k) == [j \in 1..(Len(q) - 1) |-> IF j < k THEN q[j] ELSE q[j + 1]]

\* the writeOperation settles: it leaves the chain (the finally handler drops
\* the queue entry if it is still this operation), the callback of the
\* operation chained on it runs, and the awaiting caller resumes (a loadJson
\* that wrote its default back returns the default, or throws what saveJson
\* threw)
settle(p, f, k) ==
  LET p0 == [p EXCEPT !.writeOps[f] = Remove(@, k)]
  IN IF k = 1 /\ p0.writeOps[f] # <<>> /\ p0.writeOps[f][1].step = "queued"
     THEN startWrite(p0, f, 1) ELSE p0

\* the application calls saveJson(filename, data)
SaveJson(filename, data) ==
  /\ saves < MaxSaves
  /\ PersistCommit(writeOperation([P EXCEPT !.saves = @ + 1], filename, data, "saveJson"))

\* fs.writeFile(tempPath, ...) ends
WriteFileDone(f, k, ok) ==
  /\ writeOps[f][k].step = "writeFile"
  /\ IF ok
     THEN PersistCommit([P EXCEPT !.fsTemp[f] = writeOps[f][k].data,
                                  !.writeOps[f][k].step = "unlink"])
     ELSE PersistCommit([P EXCEPT !.writeOps[f][k].step = "cleanup"])

\* fs.unlink(filePath) ends: done or ENOENT (ignored), or another error
UnlinkDone(f, k, ok) ==
  /\ writeOps[f][k].step = "unlink"
  /\ IF ok
     THEN PersistCommit([P EXCEPT !.fsTarget[f] = Absent,
                                  !.writeOps[f][k].step = "rename"])
     ELSE /\ fsTarget[f] # Absent
          /\ PersistCommit([P EXCEPT !.writeOps[f][k].step = "cleanup"])

\* fs.rename(tempPath, filePath) ends
RenameDone(f, k, ok) ==
  /\ writeOps[f][k].step = "rename"
  /\ IF ok
     THEN /\ fsTemp[f] # Absent
          /\ PersistCommit(settle([P EXCEPT !.fsTarget[f] = fsTemp[f],
                                            !.fsTemp[f] = Absent,
                                            !.stored = @ \cup {f}],
                                  f, k))
     ELSE PersistCommit([P EXCEPT !.writeOps[f][k].step = "cleanup"])

\* the catch block: the temp file is unlinked (errors ignored), the error rethrown
CleanupDone(f, k) ==
  /\ writeOps[f][k].step = "cleanup"
  /\ PersistCommit(settle([P EXCEPT !.fsTemp[f] = Absent], f, k))

\* loadJson calls that have not returned: reading, or writing the default back
LoadsInFlight(f) ==
  reading[f] + Cardinality({k \in 1..Len(writeOps[f]) : writeOps[f][k].caller = "loadJson"})

\* the application calls loadJson(filename, DefaultValue)
LoadJson(filename) ==
  /\ LoadsInFlight(ACTIVE_TRADES_FILE) + LoadsInFlight(COMPLETED_TRADES_FILE) < MaxLoads
  /\ PersistCommit([P EXCEPT !.reading[filename] = @ + 1])

\* fs.readFile followed by JSON.parse: the content, ENOENT, or a parse error
\* for a torn file
readFile(dir, f) ==
  IF dir[f] = Absent THEN "ENOENT"
  ELSE IF dir[f] = Partial THEN "SyntaxError"
  ELSE dir[f]

\* what loadJson returns for that outcome
Returned(outcome) ==
  IF outcome \in {"ENOENT", "SyntaxError"} THEN DefaultValue ELSE outcome

\* fs.readFile ends. ENOENT: saveJson(filename, defaultValue), after which the
\* default is returned; otherwise loadJson returns at once
ReadFileDone(f) ==
  /\ reading[f] > 0
  /\ LET p == [P EXCEPT !.reading[f] = @ - 1] IN
     IF readFile(fsTarget, f) = "ENOENT"
     THEN PersistCommit(writeOperation(p, f, DefaultValue, "loadJson"))
     ELSE PersistCommit(p)

\* the process stops during a save and is started again: promises and calls
\* are gone, the files stay; a writeFile in progress may leave a torn temp file
Crash ==
  /\ LET running(f) == {k \in 1..Len(writeOps[f]) : InSequence(writeOps[f][k])}
         writing == {f \in Files : \E k \in running(f) : writeOps[f][k].step = "writeFile"}
     IN /\ \E f \in Files : running(f) # {}
        /\ \E torn \in SUBSET writing :
             PersistCommit([P EXCEPT
               !.fsTemp = [f \in Files |-> IF f \in torn THEN Partial ELSE fsTemp[f]],
               !.writeOps = [f \in Files |-> <<>>],
               !.reading = [f \in Files |-> 0],
               !.expect = [f \in Files |->
                  UNION {{writeOps[f][k].before, writeOps[f][k].data} :
                           k \in {j \in running(f) : writeOps[f][j].before # Absent}}]])

\* a fresh data directory, and one where both files hold a committed value
InitialDirs == {[f \in Files |-> Absent], [f \in Files |-> "v1"]}

PersistInit ==
  /\ TradeStart([s \in Symbols |-> NoTrade])
  /\ SchedStart(<<>>)
  /\ \E dir \in InitialDirs : PersistStart(dir)
  /\ OrderStart
  /\ RateStart(1)
  /\ ExecutorStart(FALSE)
  /\ ChangeStart

PersistNext ==
  \/ \E f \in Files, v \in Values : SaveJson(f, v)
  \/ \E f \in Files : \E k \in 1..Len(writeOps[f]), ok \in BOOLEAN : WriteFileDone(f, k, ok)
  \/ \E f \in Files : \E k \in 1..Len(writeOps[f]), ok \in BOOLEAN : UnlinkDone(f, k, ok)
  \/ \E f \in Files : \E k \in 1..Len(writeOps[f]), ok \in BOOLEAN : RenameDone(f, k, ok)
  \/ \E f \in Files : \E k \in 1..Len(writeOps[f]) : CleanupDone(f, k)
  \/ \E f \in Files : LoadJson(f)
  \/ \E f \in Files : ReadFileDone(f)
  \/ Crash

PersistSpec == PersistInit /\ [][PersistNext]_vars

\* C12: after the process stopped during a save over a committed value, a
\* loadJson of that file returns the value from before the save or the value
\* being saved.
C12_CrashLeavesOldOrNew ==
  \A f \in Files :
    expect[f] # {} => Returned(readFile(fsTarget, f)) \in expect[f]

\* C13: when a save that started over a committed value fails, the temp file
\* is gone once the error reaches the caller, and a loadJson then returns the
\* value from before the save.
C13_FailedSaveKeepsCommitted ==
  [][\A f \in Files : \A k \in 1..Len(writeOps[f]) :
       (/\ writeOps[f][k].step = "cleanup"
        /\ Len(writeOps'[f]) = Len(writeOps[f]) - 1
        /\ ~Crash)
         => /\ fsTemp'[f] = Absent
            /\ writeOps[f][k].before # Absent
                 => Returned(readFile(fsTarget', f)) = writeOps[f][k].before]_vars

\* C14: at no time are two write operations of the same file between the
\* start of their writeFile and their settlement.
C14_SameFileWritesDoNotOverlap ==
  \A f \in Files :
    Cardinality({k \in 1..Len(writeOps[f]) : InSequence(writeOps[f][k])}) <= 1

\* two saves of one file, the first at its rename and the second waiting,
\* while a save of the other file is between its own steps
C14_Witness ==
  \E f \in Files, g \in Files :
    /\ f # g
    /\ Len(writeOps[f]) >= 2
    /\ writeOps[f][1].step = "rename"
    /\ writeOps[f][2].step = "queued"
    /\ writeOps[g] # <<>>
    /\ writeOps[g][1].step \in {"unlink", "rename"}

\* C15: a loadJson takes the default path (readFile reports ENOENT and the
\* default is written back) only for a file that never held a value and has
\* no saveJson in flight, and the write-back never removes a committed value
\* other than the default.
C15_DefaultOnlyWhenNeverStored ==
  [][\A f \in Files :
       /\ (reading'[f] = reading[f] - 1 /\ Len(writeOps'[f]) = Len(writeOps[f]) + 1)
            => /\ f \notin stored
               /\ \A k \in 1..Len(writeOps[f]) : writeOps[f][k].caller # "saveJson"
       /\ \A k \in 1..Len(writeOps[f]) :
            (/\ writeOps[f][k].caller = "loadJson"
             /\ writeOps[f][k].step = "unlink"
             /\ fsTarget'[f] # fsTarget[f])
              => fsTarget[f] = DefaultValue]_vars

\* ------------------------------------ placeMarketBuy / placeMarketSell
\* How a placeOrder call ends. MexcAPI.request returns null for every error of
\* the HTTP request: "rejected" is an error response of the exchange, "timeout"
\* a request that got no response (the exchange may have accepted the order).
\* "filled" is a response with execution details, "accepted" a response with
\* an orderId and no execution details, "throw" an exception from placeOrder.
PlaceOrderOutcomes == {"rejected", "timeout", "filled", "accepted", "throw"}
GetOrderOutcomes == {"null", "filled", "unfilled", "throw"}

OrderCommit(o, p) ==
  /\ orderCall' = o
  /\ placed' = p
  /\ UNCHANGED <<tvars, svars, pvars, rvars, xvars, cvars>>

\* `return null` / `return { avgPrice, quantity }`
returnNull(o) == [o EXCEPT !.pc = "returned", !.result = "null"]
returnFill(o) == [o EXCEPT !.pc = "returned", !.result = "avgPrice"]

\* the three failure branches: sleep and `continue` while attempt < maxAttempts,
\* else return null
retryOrGiveUp(o) ==
  IF o.attempt < maxAttempts THEN [o EXCEPT !.pc = "sleep"] ELSE returnNull(o)

\* a catch block that lets the error escape
catchErrorRethrow(o) == [o EXCEPT !.pc = "returned", !.result = "thrown"]

\* the catch block, lines 185-198 / 286-299
catchError(o) == retryOrGiveUp(o)

\* placeMarketBuy(symbol, amountUsdt) / placeMarketSell(symbol, quantity) is
\* called: first pass of the loop up to `await this.api.placeOrder`
PlaceMarketOrder(side) ==
  /\ orderCall.pc \in {"idle", "returned"}
  /\ OrderCommit([side |-> side, attempt |-> 1, pc |-> "placeOrder", result |-> "none"],
                 <<>>)

\* placeOrder ends
PlaceOrderResult(outcome) ==
  /\ orderCall.pc = "placeOrder"
  /\ OrderCommit(CASE outcome \in {"rejected", "timeout"} -> retryOrGiveUp(orderCall)
                   [] outcome = "filled" -> returnFill(orderCall)
                   [] outcome = "accepted" -> [orderCall EXCEPT !.pc = "wait"]
                   [] outcome = "throw" -> catchError(orderCall),
                 Append(placed, outcome))

\* the 1000 ms wait before the order is queried ends: getOrder is called
WaitDone ==
  /\ orderCall.pc = "wait"
  /\ OrderCommit([orderCall EXCEPT !.pc = "getOrder"], placed)

\* getOrder ends
GetOrderResult(outcome) ==
  /\ orderCall.pc = "getOrder"
  /\ OrderCommit(CASE outcome = "null" -> retryOrGiveUp(orderCall)
                   [] outcome = "filled" -> returnFill(orderCall)
                   [] outcome = "unfilled" -> returnNull(orderCall)
                   [] outcome = "throw" -> catchError(orderCall),
                 placed)

\* the delay before the retry ends: `continue`, attempt++, loop condition,
\* next placeOrder (or the return after the loop)
RetrySleepDone ==
  /\ orderCall.pc = "sleep"
  /\ OrderCommit(IF orderCall.attempt + 1 <= maxAttempts
                 THEN [orderCall EXCEPT !.attempt = @ + 1, !.pc = "placeOrder"]
                 ELSE returnNull([orderCall EXCEPT !.attempt = @ + 1]),
                 placed)

OrderInit ==
  /\ TradeStart([s \in Symbols |-> NoTrade])
  /\ SchedStart(<<>>)
  /\ PersistStart([f \in Files |-> Absent])
  /\ OrderStart
  /\ RateStart(1)
  /\ ExecutorStart(FALSE)
  /\ ChangeStart

OrderNext ==
  \/ \E side \in {"BUY", "SELL"} : PlaceMarketOrder(side)
  \/ \E outcome \in PlaceOrderOutcomes : PlaceOrderResult(outcome)
  \/ WaitDone
  \/ \E outcome \in GetOrderOutcomes : GetOrderResult(outcome)
  \/ RetrySleepDone

OrderSpec == OrderInit /\ [][OrderNext]_vars

\* placeOrder calls made so far by the call in progress
PlaceOrderCalls == Len(placed) + (IF orderCall.pc = "placeOrder" THEN 1 ELSE 0)

\* the exchange did not get the order: error response, or placeOrder threw
UnambiguousFailure(outcome) == outcome \in {"rejected", "throw"}

\* C19: within one call, another placeOrder is submitted only when every
\* earlier placeOrder of the call failed unambiguously (no orderId returned,
\* no timeout).
C19_RetryOnlyAfterUnambiguousFailure ==
  [][(orderCall.pc = "sleep" /\ orderCall'.pc = "placeOrder")
       => \A i \in 1..Len(placed) : UnambiguousFailure(placed[i])]_vars

\* C20: a call makes at most maxAttempts placeOrder calls; a null or thrown
\* placeOrder is followed by another attempt while attempts remain; the call
\* never throws, and returns null when every placeOrder failed.
C20_BoundedRetries ==
  /\ PlaceOrderCalls <= maxAttempts
  /\ orderCall.result # "thrown"
  /\ (/\ orderCall.pc = "returned"
      /\ \A i \in 1..Len(placed) : placed[i] \in {"rejected", "timeout", "throw"})
       => /\ orderCall.result = "null"
          /\ Len(placed) = maxAttempts

\* a call that returned null after a null, a thrown and another null placeOrder
C20_Witness ==
  /\ orderCall.pc = "returned"
  /\ orderCall.result = "null"
  /\ placed = <<"rejected", "throw", "timeout">>

\* ------------------------------------------------------------- shutdown
\* ShutSpec: the TradeManager of a process that starts over an empty
\* active_trades.json, with shutdown().  Positions are opened by the main
\* loop's handleNewListing and by the scheduler's trade executor, which a
\* timer can start at any time (part_009 lines 82-95).

\* controller.abort() for every entry of monitoringTasks
abortAll(m) ==
  LET cs == {m.monitoringTasks[s] : s \in Symbols} \ {NoTask}
  IN [m EXCEPT !.loops = [i \in 1..Len(@) |->
                            IF i \in cs THEN abortController(@, i)[i] ELSE @[i]]]

\* shutdown() up to `await this.saveActiveTrades()`, or to its end when
\* activeTrades is empty
shutdown(m) ==
  LET m1 == abortAll([m EXCEPT !.shuttingDown = TRUE])
  IN IF \E s \in Symbols : m.activeTrades[s] # NoRef
     THEN saveActiveTrades(m1, Owner("shutdown", 0, "none", "shutdown"))
     ELSE m1

\* TradingBot.shutdown() calls tradeManager.shutdown() once, after the main
\* loop, which starts after restoreMonitoring() returned
Shutdown ==
  /\ restore.pc = "done"
  /\ ~shuttingDown
  /\ Commit(shutdown(M))

\* the trade executor's handleNewListing after a filled buy: startMonitoring(...)
ScheduledListingBuy(symbol, buyPrice) ==
  /\ restore.pc # "idle"
  /\ Len(loops) + PendingStarts(writeQueues[ACTIVE_TRADES_FILE])
       + (IF restore.pc = "loading" THEN Cardinality(Symbols) ELSE Len(restore.rest))
       < MaxBuys
  /\ Commit(startMonitoring(M, symbol, buyPrice, "env"))

ShutInit ==
  /\ TradeStart([s \in Symbols |-> NoTrade])
  /\ SchedStart(<<>>)
  /\ PersistStart([f \in Files |-> Absent])
  /\ OrderStart
  /\ RateStart(1)
  /\ ExecutorStart(FALSE)
  /\ ChangeStart

\* getPrice results next to shutdown(): one below the stop loss, one new high
ShutPrices == {900, 1100}

ShutNext ==
  \/ \E s \in Symbols, p \in BuyPrices : ScheduledListingBuy(s, p)
  \/ RestoreCall
  \/ \E o \in Orderings(SymbolsIn(disk[ACTIVE_TRADES_FILE])) : RestoreLoaded(o)
  \/ Shutdown
  \/ \E i \in 1..Len(loops), p \in ShutPrices \cup {NoPrice} : PriceResult(i, p)
  \/ \E i \in 1..Len(loops), p \in SellPrices \cup {NoPrice} : SellResult(i, p)
  \/ \E i \in 1..Len(loops) : RecLoaded(i)
  \/ \E f \in Files : SaveDone(f)
  \/ \E i \in 1..Len(loops) : SleepDone(i)

ShutSpec == ShutInit /\ [][ShutNext]_vars

\* shutdown()'s save is waiting in the queue of active_trades.json
ShutdownSaving(q) == \E k \in 1..Len(q) : q[k].kind = "shutdown"

\* C21: when shutdown() resolves (at its call when no position is open,
\* otherwise when its save is written), the controller of every monitoring
\* task still running has been aborted and active_trades.json holds exactly
\* the positions that are open in memory, each with its current highestPrice
\* and trailing stop.
C21_ShutdownPersistsOpenPositions ==
  [][ ( \/ ShutdownSaving(writeQueues[ACTIVE_TRADES_FILE])
             /\ ~ShutdownSaving(writeQueues'[ACTIVE_TRADES_FILE])
        \/ ~shuttingDown /\ shuttingDown'
             /\ ~ShutdownSaving(writeQueues'[ACTIVE_TRADES_FILE]) )
      => /\ \A i \in 1..Len(loops') :
              loops'[i].pc \notin {"done", "rejected"} => loops'[i].aborted
         /\ disk'[ACTIVE_TRADES_FILE] = SerializeActive(tradeHeap', activeTrades') ]_vars

\* one step of monitorTrade invocation i: the call or the sleep it awaits settles
LoopStep(i) ==
  /\ i \in 1..Len(loops)
  /\ \/ \E p \in Prices \cup {NoPrice} : PriceResult(i, p)
     \/ \E p \in SellPrices \cup {NoPrice} : SellResult(i, p)
     \/ RecLoaded(i)
     \/ SleepDone(i)

\* every exchange call returns, every timer fires, every queued write is made
ShutFairSpec ==
  /\ ShutSpec
  /\ \A i \in 1..MaxBuys : WF_vars(LoopStep(i))
  /\ \A f \in Files : WF_vars(SaveDone(f))

Terminated(l) == l.pc \in {"done", "rejected"}

\* C22: after shutdown() is called every monitoring loop terminates, and a
\* loop whose controller was aborted starts no further iteration (it makes
\* no new getPrice call).
C22_LoopsTerminateAfterShutdown ==
  /\ shuttingDown ~> (\A i \in 1..Len(loops) : Terminated(loops[i]))
  /\ [][\A i \in 1..Len(loops) :
          (loops[i].aborted /\ loops[i].pc # "price") => loops'[i].pc # "price"]_vars

C22_Witness ==
  /\ shuttingDown
  /\ \E i \in 1..Len(loops) : loops[i].aborted /\ loops[i].pc = "done"

\* ---------------------------------------------------------- rate limiter
\* RateSpec: RateLimiter.acquire (src/src/api/mexc.ts) under concurrent
\* callers.  The clock advances by half a window; a timer fires at its due
\* time or later.
RateStep == window \div 2

R == [requests |-> requests, calls |-> calls]

RateCommit(r) ==
  /\ requests' = r.requests
  /\ calls' = r.calls
  /\ UNCHANGED <<limit, clock, tvars, svars, pvars, ovars, xvars, cvars>>

\* this.requests.filter((timestamp) => now - timestamp < this.window)
InWindow(reqs, t) == SelectSeq(reqs, LAMBDA timestamp : t - timestamp < window)

\* acquire() as it would be if the caller took its slot after the wait
\* instead of calling acquire() again
acquireNoRetry(r, c, t) ==
  LET kept == InWindow(r.requests, t) IN
  IF Len(kept) >= limit /\ r.calls[c].pc = "new"
  THEN [r EXCEPT !.requests = kept,
                 !.calls[c].pc = "waiting",
                 !.calls[c].wakeAt = t + (window - (t - kept[1]))]
  ELSE [r EXCEPT !.requests = Append(kept, t),
                 !.calls[c].pc = "returned",
                 !.calls[c].returnedAt = t]

\* acquire() of call c at time t, up to its await or its return
acquire(r, c, t) ==
  LET kept == InWindow(r.requests, t) IN
  IF Len(kept) >= limit
  THEN [r EXCEPT !.requests = kept,
                 !.calls[c].pc = "waiting",
                 !.calls[c].wakeAt = t + (window - (t - kept[1]))]
  ELSE [r EXCEPT !.requests = Append(kept, t),
                 !.calls[c].pc = "returned",
                 !.calls[c].returnedAt = t]

NewCall(t) ==
  [pc |-> "new", calledAt |-> t, wakeAt |-> NoTime, wakes |-> 0, returnedAt |-> NoTime]

\* a caller calls acquire()
Acquire ==
  /\ Len(calls) < MaxCalls
  /\ RateCommit(acquire([R EXCEPT !.calls = Append(@, NewCall(clock))],
                        Len(calls) + 1, clock))

\* the setTimeout of a waiting call fires: return this.acquire()
AcquireWake(c) ==
  /\ calls[c].pc = "waiting"
  /\ clock >= calls[c].wakeAt
  /\ RateCommit(acquire([R EXCEPT !.calls[c].wakes = @ + 1], c, clock))

RateTick ==
  /\ clock < MaxRateTicks * RateStep
  /\ clock' = clock + RateStep
  /\ UNCHANGED <<limit, requests, calls, tvars, svars, pvars, ovars, xvars, cvars>>

RateInit ==
  /\ TradeStart([s \in Symbols |-> NoTrade])
  /\ SchedStart(<<>>)
  /\ PersistStart([f \in Files |-> Absent])
  /\ OrderStart
  /\ \E n \in Limits : RateStart(n)
  /\ ExecutorStart(FALSE)
  /\ ChangeStart

RateNext ==
  \/ Acquire
  \/ \E c \in 1..Len(calls) : AcquireWake(c)
  \/ RateTick

RateSpec == RateInit /\ [][RateNext]_vars

\* the acquire() calls that have been granted
Granted == {c \in 1..Len(calls) : calls[c].pc = "returned"}

\* C23: at most `limit` acquire() calls are granted within any window that
\* ends at a grant and reaches back less than `window` milliseconds; with
\* limit 2 the third of three calls made at the same time does not return
\* before a full window has passed since the first.
C23_AtMostLimitPerWindow ==
  /\ \A c \in Granted :
       Cardinality({d \in Granted :
                      /\ calls[d].returnedAt <= calls[c].returnedAt
                      /\ calls[c].returnedAt - calls[d].returnedAt < window}) <= limit
  /\ (limit = 2 /\ Len(calls) >= 3 /\ calls[3].calledAt = calls[1].calledAt
        /\ 3 \in Granted)
       => calls[3].returnedAt - calls[1].calledAt >= window

\* two callers woke at the same time: one was granted, the other waits again
C23_Witness ==
  \E c, d \in 1..Len(calls) :
     /\ calls[c].wakes = 1 /\ calls[c].pc = "returned" /\ calls[c].returnedAt = clock
     /\ calls[d].wakes = 1 /\ calls[d].pc = "waiting"
     /\ calls[d].wakeAt = clock + window

\* ------------------------------------------------- add, remove, cleanup
\* JobSpec: one ListingScheduler over an empty scheduled_listings.json whose
\* addScheduledListing and removeScheduledListing are called any number of
\* times (src/src/server/api.ts), next to initialize() and the timers, until
\* cleanup() is called at shutdown.  A retry loop is followed up to the result
\* of its first executor call.

ApiCall(op, key, result, armed) ==
  [op |-> op, key |-> key, result |-> result, armed |-> armed,
   count |-> lastCall.count + 1]

\* the jobs of the current list that have an armed timer and status pending
ArmedPending(s) ==
  {k \in JobKeys : /\ s.activeTimers[k] # NoRef
                   /\ FindListing(s, k) # NoRef
                   /\ s.listings[FindListing(s, k)].status = "pending"}

\* addScheduledListing is called, for a new or for an existing key
AddListing(key) ==
  /\ lastCall.op # "cleanup"
  /\ lastCall.count < MaxApiCalls
  /\ SchedCommit(addScheduledListing(
       [S EXCEPT !.lastCall = ApiCall("add", key,
                                      IF FindListing(S, key) # NoRef THEN "exists"
                                                                     ELSE "added", {})],
       key))

\* removeScheduledListing up to `return false` or to its await
removeScheduledListing(s, key) ==
  LET arr == s.arrays[s.scheduledListings]
      hits == {k \in 1..Len(arr) : timerId(s.listings[arr[k]]) = key}
      index == CHOOSE k \in hits : \A j \in hits : k <= j
  IN IF hits = {} THEN s
     ELSE saveScheduledListings(
            [s EXCEPT !.arrays[s.scheduledListings] =
                         SubSeq(arr, 1, index - 1) \o SubSeq(arr, index + 1, Len(arr)),
                      !.timeouts = {t \in @ : ~(t.key = key /\ t.listing = s.activeTimers[key])},
                      !.activeTimers[key] = NoRef],
            "remove", NoRef)

RemoveScheduledListing(key) ==
  /\ lastCall.op # "cleanup"
  /\ lastCall.count < MaxApiCalls
  /\ SchedCommit(removeScheduledListing(
       [S EXCEPT !.lastCall = ApiCall("remove", key,
                                      IF FindListing(S, key) # NoRef THEN "removed"
                                                                     ELSE "absent",
                                      ArmedPending(S) \cap {key})],
       key))

\* cleanup() as it would be if it only emptied the map
cleanupNoClear(s) ==
  [s EXCEPT !.activeTimers = [k \in JobKeys |-> NoRef]]

\* cleanup(): clearTimeout for every entry of activeTimers, then clear()
cleanup(s) ==
  [s EXCEPT !.timeouts = {t \in @ : s.activeTimers[t.key] # t.listing},
            !.activeTimers = [k \in JobKeys |-> NoRef]]

\* an addScheduledListing call is awaiting its save
AddInProgress(s) == \E k \in 1..Len(s.schedQueue) : s.schedQueue[k].kind = "add"

\* TradingBot.shutdown() calls cleanup() once, after the main loop has ended:
\* no initialize() is in progress and none is called afterwards
Cleanup ==
  /\ lastCall.op # "cleanup"
  /\ init = "idle"
  /\ SchedCommit(cleanup([S EXCEPT !.lastCall =
                             ApiCall("cleanup", NoKey,
                                     IF AddInProgress(S) THEN "busy" ELSE "idle",
                                     ArmedPending(S))]))

JobInit ==
  /\ TradeStart([s \in Symbols |-> NoTrade])
  /\ SchedStart(<<>>)
  /\ PersistStart([f \in Files |-> Absent])
  /\ OrderStart
  /\ RateStart(1)
  /\ ExecutorStart(FALSE)
  /\ ChangeStart

JobNext ==
  \/ reloads < MaxJobReloads /\ lastCall.op # "cleanup" /\ Initialize
  \/ SetTradeExecutor
  \/ \E k \in JobKeys : AddListing(k)
  \/ \E k \in JobKeys : RemoveScheduledListing(k)
  \/ Cleanup
  \/ SchedSaveDone
  \/ \E t \in timeouts : TimerFire(t)
  \/ \E e \in BagToSet(execs), r \in {"true", "false", "throw"} : ExecutorResult(e, r)
  \/ now < MaxJobTicks * ClockStep /\ Tick

JobSpec == JobInit /\ [][JobNext]_vars

\* the keys of the jobs in the current list, and how often each occurs
KeyCount(key) ==
  LET arr == arrays[scheduledListings]
  IN Cardinality({k \in 1..Len(arr) : timerId(listings[arr[k]]) = key})

FileKeyCount(file, key) ==
  Cardinality({k \in 1..Len(file) : timerId(file[k]) = key})

\* C24: the job list never holds two jobs with the same (symbol,
\* listingTime), and an addScheduledListing call for a key that is already in
\* the list changes neither the list, nor the file, nor the timers.
C24_NoDuplicateJobs ==
  /\ [](\A key \in JobKeys : KeyCount(key) <= 1)
  /\ [][(lastCall'.op = "add" /\ lastCall'.result = "exists" /\ lastCall' # lastCall)
          => UNCHANGED <<listings, arrays, scheduledListings, schedFile, schedQueue,
                         activeTimers, timeouts, execs>>]_vars

\* an add for an existing key was made while the job's timer was armed
C24_Witness ==
  /\ lastCall.op = "add" /\ lastCall.result = "exists"
  /\ activeTimers[lastCall.key] # NoRef
  /\ KeyCount(lastCall.key) = 1

\* the step at which the oldest queued write, a removeScheduledListing's,
\* is made and the call returns true
RemoveReturns ==
  /\ schedQueue # <<>>
  /\ Head(schedQueue).kind = "remove"
  /\ schedQueue' = Tail(schedQueue)

\* C25: when removeScheduledListing returns for a job that was pending with
\* an armed timer (and no add was called meanwhile), the job is in neither
\* the list nor the file and no timer is armed for it, so that the executor
\* is not invoked at its listing time; a call for an absent key changes nothing.
C25_RemovedJobIsGone ==
  /\ [][(RemoveReturns /\ lastCall.op = "remove" /\ lastCall.key \in lastCall.armed)
          => /\ KeyCount(lastCall.key)' = 0
             /\ FileKeyCount(schedFile', lastCall.key) = 0
             /\ \A t \in timeouts' : t.key # lastCall.key]_vars
  /\ [][(lastCall'.op = "remove" /\ lastCall'.result = "absent" /\ lastCall' # lastCall)
          => UNCHANGED <<listings, arrays, scheduledListings, schedFile, schedQueue,
                         activeTimers, timeouts, execs>>]_vars

X == [job |-> job, executor |-> executor, monitored |-> monitored]

ExecutorCommit(x) ==
  /\ job' = x.job
  /\ executor' = x.executor
  /\ monitored' = x.monitored
  /\ UNCHANGED <<tvars, svars, pvars, ovars, rvars, cvars>>

\* the executor's promise resolves with true: markListingTraded
executorReturnsTrue(x) ==
  [x EXCEPT !.executor.pc = "returned", !.job.status = "completed"]

\* the executor resolves with false or rejects: the loop sleeps retryInterval
executorFails(x) ==
  [x EXCEPT !.executor = [NoExecutorCall EXCEPT !.pc = "sleeping"]]

\* executeScheduledTrade lines 283-289: the while condition holds, the
\* executor is called and awaits getCurrentMarkets()
ExecutorCalled ==
  /\ job.status = "active"
  /\ executor.pc \in {"idle", "sleeping"}
  /\ job.attempts < MaxAttempts
  /\ ExecutorCommit([X EXCEPT !.job.attempts = @ + 1,
                              !.executor = [NoExecutorCall EXCEPT !.pc = "markets"]])

\* the while condition fails: markListingMissed
DeadlinePassed ==
  /\ job.status = "active"
  /\ executor.pc \in {"idle", "sleeping"}
  /\ ExecutorCommit([X EXCEPT !.job.status = "missed"])

\* getCurrentMarkets() resolves (the symbol is listed or not) or rejects
MarketsResult(outcome) ==
  /\ executor.pc = "markets"
  /\ IF outcome = "listed"
     THEN ExecutorCommit([X EXCEPT !.executor.pc = "ticker"])
     ELSE ExecutorCommit(executorFails(X))

\* getTicker24h resolves, with the ticker or with null
TickerResult(found) ==
  /\ executor.pc = "ticker"
  /\ IF found
     THEN ExecutorCommit([X EXCEPT !.executor.ticker = TRUE, !.executor.pc = "buy"])
     ELSE IF executor.retries < maxTickerRetries
     THEN ExecutorCommit([X EXCEPT !.executor.retries = @ + 1])
     ELSE ExecutorCommit([X EXCEPT !.executor.pc = "buy"])

\* placeMarketBuy resolves: null (handleNewListing logs BUY FAILED and
\* returns, the executor returns true) or the fill (startMonitoring is awaited)
BuyResult(buyResult) ==
  /\ executor.pc = "buy"
  /\ IF buyResult = "null"
     THEN ExecutorCommit(executorReturnsTrue([X EXCEPT !.executor.buyResult = "null"]))
     ELSE ExecutorCommit([X EXCEPT !.executor.buyResult = "filled",
                                   !.executor.pc = "startMonitoring"])

\* startMonitoring resolves: it started a loop, or it returned at once because
\* the symbol is monitored already; handleNewListing returns, the executor
\* returns true
StartMonitoringDone ==
  /\ executor.pc = "startMonitoring"
  /\ ExecutorCommit(executorReturnsTrue(
       [X EXCEPT !.executor.monitoring = IF monitored THEN "skipped" ELSE "started",
                 !.monitored = TRUE]))

ExecutorInit ==
  /\ TradeStart([s \in Symbols |-> NoTrade])
  /\ SchedStart(<<>>)
  /\ PersistStart([f \in Files |-> Absent])
  /\ OrderStart
  /\ RateStart(1)
  /\ \E has \in BOOLEAN : ExecutorStart(has)
  /\ ChangeStart

ExecutorNext ==
  \/ ExecutorCalled
  \/ DeadlinePassed
  \/ \E outcome \in {"listed", "notListed", "throw"} : MarketsResult(outcome)
  \/ \E found \in BOOLEAN : TickerResult(found)
  \/ \E r \in {"null", "filled"} : BuyResult(r)
  \/ StartMonitoringDone

ExecutorSpec == ExecutorInit /\ [][ExecutorNext]_vars

\* C27: a job is marked completed only if its buy order was filled and
\* monitoring of the new position was started.
C27_CompletedOnlyAfterTrade ==
  job.status = "completed"
    => executor.buyResult = "filled" /\ executor.monitoring = "started"

\* ------------------------------------------------- position invariants
\* the TradeState objects of the process
Positions == {r \in Refs : tradeHeap[r] # NoTrade}

\* C28: for every position of the process, stopLossPrice is
\* buyPrice * (1 - stopLossPct/100) and is never assigned again,
\* highestPrice >= buyPrice, and trailingStopPrice is
\* highestPrice * (1 - trailingPct/100).
C28_PositionInvariants ==
  /\ [](\A r \in Positions :
          /\ tradeHeap[r].stopLossPrice = MulOneMinusPct(tradeHeap[r].buyPrice, stopLossPct)
          /\ tradeHeap[r].highestPrice >= tradeHeap[r].buyPrice
          /\ tradeHeap[r].trailingStopPrice
               = MulOneMinusPct(tradeHeap[r].highestPrice, trailingPct))
  /\ [][\A r \in Positions :
          tradeHeap'[r] # NoTrade
            => /\ tradeHeap'[r].stopLossPrice = tradeHeap[r].stopLossPrice
               /\ tradeHeap'[r].buyPrice = tradeHeap[r].buyPrice]_vars

\* a position opened in this run whose price has risen and then fallen back
C28_Witness ==
  \E r \in Positions :
     /\ tradeHeap[r].highestPrice > tradeHeap[r].buyPrice
     /\ lastTick.price # NoPrice
     /\ lastTick.price < tradeHeap[r].highestPrice
     /\ lastTick.trade.market = tradeHeap[r].market
     /\ restore.persisted[tradeHeap[r].market] = NoTrade

\* ----------------------------------------------------------- retry loop
\* RetrySpec: the scheduler with its retry loops followed to their end.  The
\* clock keeps advancing while a loop is inside its wait window; every
\* executor call returns, every sleep and every queued write completes.

\* the executor's promise rejects
ExecutorThrows(e) ==
  /\ BagIn(e, execs)
  /\ e.pc = "calling"
  /\ SchedCommit(executorSettled([S EXCEPT !.thrown = @ \cup {e.key}], e, "throw"))

\* time passes while a retry loop is inside its wait window
WindowTick ==
  /\ \E e \in BagToSet(execs) : now - e.startTime < maxWaitAfterListing
  /\ \A t \in timeouts : t.due > now
  /\ schedQueue = <<>>
  /\ SchedCommit([S EXCEPT !.now = @ + ClockStep])

RetryNext ==
  \/ reloads < MaxJobReloads /\ Initialize
  \/ SetTradeExecutor
  \/ \E k \in JobKeys : AddScheduledListing(k)
  \/ SchedSaveDone
  \/ \E t \in timeouts : TimerFire(t)
  \/ \E e \in BagToSet(execs), r \in {"true", "false"} : ExecutorResult(e, r)
  \/ \E e \in BagToSet(execs) : ExecutorThrows(e)
  \/ \E e \in BagToSet(execs) : ExecWake(e)
  \/ Tick
  \/ WindowTick

RetrySpec ==
  /\ SchedInit
  /\ [][RetryNext]_vars
  /\ WF_vars(SchedSaveDone)
  /\ WF_vars(\E e \in BagToSet(execs), r \in {"true", "false"} : ExecutorResult(e, r))
  /\ WF_vars(\E e \in BagToSet(execs) : ExecutorThrows(e))
  /\ WF_vars(\E e \in BagToSet(execs) : ExecWake(e))
  /\ WF_vars(WindowTick)

\* a retry loop of the job is running
Executing(key) == \E e \in BagToSet(execs) : e.key = key

\* the job is in the list with status completed or missed
Settled(key) ==
  /\ FindListing(S, key) # NoRef
  /\ listings[FindListing(S, key)].status \in {"completed", "missed"}

\* C29: every job whose retry loop has started is eventually marked completed
\* or missed.
C29_StartedJobIsSettled ==
  \A key \in JobKeys : Executing(key) ~> Settled(key)

\* C30: an executor call that throws does not end the retry loop (the loop
\* sleeps and goes on), and the job is still marked completed or missed in
\* the end.
C30_ThrowIsAFailedAttempt ==
  /\ [][\A e \in BagToSet(execs) :
          (e.pc = "calling" /\ thrown' # thrown /\ ~BagIn(e, execs'))
            => BagIn([e EXCEPT !.pc = "sleeping"], execs')]_vars
  /\ \A key \in JobKeys : (key \in thrown) ~> Settled(key)

\* ---------------------------------------------------------- bot startup
\* RunSpec: the scheduler as TradingBot.run drives it.  run() awaits
\* scheduler.initialize() first (line 79), registers the trade executor
\* after that call has returned (line 82), and its main loop awaits
\* initialize() again when checkForChanges() reports a change (lines 139-144).
\* The process may start at any time relative to the job's listing time.
RunNext ==
  \/ (reloads = 0 \/ tradeExecutor) /\ Initialize
  \/ reloads > 0 /\ init = "idle" /\ SetTradeExecutor
  \/ SchedSaveDone
  \/ \E t \in timeouts : TimerFire(t)
  \/ \E e \in BagToSet(execs), r \in {"true", "false", "throw"} : ExecutorResult(e, r)
  \/ \E e \in BagToSet(execs) : ExecWake(e)
  \/ Tick

RunSpec == SchedInit /\ [][RunNext]_vars

\* C31: a job persisted as pending that the startup sequence processes at most
\* maxWaitAfterListing after its listing time is executed at once with the
\* trade executor; it is not marked missed without an executor invocation.
C31_RestartInsideWindowExecutes ==
  \A k \in JobKeys :
    (late[k].by >= 0 /\ late[k].by <= maxWaitAfterListing)
      => late[k].outcome = "executed"

\* ------------------------------------------------------- pruning on load
\* PruneSpec: the bot over a file that holds a job scheduled one retention
\* window ahead of its listing time, next to a job that was completed two
\* retention windows ago.
ScheduledAhead ==
  <<[Listing([symbol |-> "OLD", listingTime |-> 0 - 2 * RetentionSeconds],
             "completed", 0 - 2 * RetentionSeconds)
       EXCEPT !.tradedAt = 0 - 2 * RetentionSeconds],
    Listing(CHOOSE k \in JobKeys : TRUE, "pending", 0 - RetentionSeconds)>>

PruneInit ==
  /\ TradeStart([s \in Symbols |-> NoTrade])
  /\ SchedStart(ScheduledAhead)
  /\ PersistStart([f \in Files |-> Absent])
  /\ OrderStart
  /\ RateStart(1)
  /\ ExecutorStart(FALSE)
  /\ ChangeStart

PruneSpec == PruneInit /\ [][RunNext]_vars

\* loadScheduledListings drops the file's entry in this step
Pruned(entry) ==
  /\ reloads' = reloads + 1
  /\ FindListing(S', timerId(entry)) = NoRef

\* the time at which the entry became completed (markListingTraded stamps
\* tradedAt); a missed entry, which carries no such time, cannot have become
\* missed before its listing time
TerminalSince(entry) ==
  IF entry.status = "completed" THEN entry.tradedAt ELSE entry.listingTime

\* C32: a load prunes a job only if it is completed or missed and has been so
\* for at least the retention window; pending and active jobs are never
\* pruned, and a job that became terminal less than 24 hours ago is kept.
C32_PrunedOnlyAfterRetention ==
  [][\A k \in 1..Len(schedFile) :
       Pruned(schedFile[k])
         => /\ schedFile[k].status \in {"completed", "missed"}
            /\ TerminalSince(schedFile[k]) + RetentionSeconds <= now]_vars

\* ------------------------------------------------------ change detection
\* ChangeSpec: checkForChanges() calls over a file whose modification time,
\* in milliseconds, is whatever fs.stat reports at each call.
MTimes == {0, 1000, 2000, 3000}
NoStat == -1        \* fs.stat rejects (the file does not exist)

\* checkForChanges as it would be without the assignment of line 394
checkForChangesNoRecord(last, currentModTime) ==
  IF currentModTime = NoStat THEN [lastFileModTime |-> last, returns |-> FALSE]
  ELSE IF last = 0 THEN [lastFileModTime |-> currentModTime, returns |-> FALSE]
  ELSE IF currentModTime > last THEN [lastFileModTime |-> last, returns |-> TRUE]
  ELSE [lastFileModTime |-> last, returns |-> FALSE]

\* checkForChanges: the new lastFileModTime and the value returned
checkForChanges(last, currentModTime) ==
  IF currentModTime = NoStat THEN [lastFileModTime |-> last, returns |-> FALSE]
  ELSE IF last = 0 THEN [lastFileModTime |-> currentModTime, returns |-> FALSE]
  ELSE IF currentModTime > last THEN [lastFileModTime |-> currentModTime, returns |-> TRUE]
  ELSE [lastFileModTime |-> last, returns |-> FALSE]

CheckForChanges(currentModTime) ==
  /\ Len(checks) < MaxChecks
  /\ LET r == checkForChanges(lastFileModTime, currentModTime)
     IN /\ lastFileModTime' = r.lastFileModTime
        /\ checks' = Append(checks, [mtime |-> currentModTime, returns |-> r.returns])
  /\ UNCHANGED <<tvars, svars, pvars, ovars, rvars, xvars>>

ChangeInit ==
  /\ TradeStart([s \in Symbols |-> NoTrade])
  /\ SchedStart(<<>>)
  /\ PersistStart([f \in Files |-> Absent])
  /\ OrderStart
  /\ RateStart(1)
  /\ ExecutorStart(FALSE)
  /\ ChangeStart

ChangeNext == \E m \in MTimes \cup {NoStat} : CheckForChanges(m)

ChangeSpec == ChangeInit /\ [][ChangeNext]_vars

\* the calls before call i whose fs.stat succeeded
Successful(i) == {j \in 1..(i - 1) : checks[j].mtime # NoStat}

\* the modification time observed by the last successful call before call i
LastObserved(i) == checks[CHOOSE j \in Successful(i) : \A k \in Successful(i) : k <= j].mtime

\* the largest modification time observed by a successful call before call i
LargestObserved(i) ==
  IF Successful(i) = {} THEN 0
  ELSE LET j == CHOOSE j \in Successful(i) :
                  \A k \in Successful(i) : checks[k].mtime <= checks[j].mtime
       IN checks[j].mtime

C34_OneRetryLoopPerJob ==
  \A e1, e2 \in BagToSet(execs) :
    e1.key = e2.key => (e1 = e2 /\ CopiesIn(e1, execs) = 1)

\* --------------------------------------------------- restart during a close
\* RestartSpec: the TradeManager over the positions an earlier run persisted,
\* with the process stopping at any point of a close and starting again.  A
\* new process has a new TradeManager (empty maps, no loops, no queued writes)
\* over the files as they are on disk; the price budget spans both processes.
InClose(l) == l.pc \in {"selling", "recLoad", "recSave", "finalSave"}

Restart ==
  /\ \E i \in 1..Len(loops) : InClose(loops[i])
  /\ Commit([M EXCEPT !.tradeHeap = [r \in Refs |-> NoTrade],
                      !.activeTrades = [s \in Symbols |-> NoRef],
                      !.monitoringTasks = [s \in Symbols |-> NoTask],
                      !.loops = <<>>,
                      !.shuttingDown = FALSE,
                      !.writeQueues = [f \in Files |-> <<>>],
                      !.restore = NoRestore,
                      !.lastTick = NoTick])

RestartNext ==
  \/ RestoreCall
  \/ \E o \in Orderings(SymbolsIn(disk[ACTIVE_TRADES_FILE])) : RestoreLoaded(o)
  \/ \E i \in 1..Len(loops), p \in Prices \cup {NoPrice} : PriceResult(i, p)
  \/ \E i \in 1..Len(loops), p \in SellPrices \cup {NoPrice} : SellResult(i, p)
  \/ \E i \in 1..Len(loops) : RecLoaded(i)
  \/ \E f \in Files : SaveDone(f)
  \/ \E i \in 1..Len(loops) : SleepDone(i)
  \/ Restart

RestartSpec == Init /\ [][RestartNext]_vars

\* completed_trades.json holds a record of the symbol's position
InHistory(symbol) ==
  \E k \in 1..Len(disk[COMPLETED_TRADES_FILE]) :
    disk[COMPLETED_TRADES_FILE][k].market = symbol

\* C35: a position with a record in the closed-position history is not
\* restored from active_trades.json and monitored again, at whatever point of
\* its close the process was restarted.
C35_ClosedPositionNotRestored ==
  \A s \in Symbols :
    ~(InHistory(s) /\ restore.persisted[s] # NoTrade /\ monitoringTasks[s] # NoTask)

\* ------------------------------------------------ price fetch at shutdown
\* C36: once shutdown() has aborted a monitoring task, a price fetch of that
\* task that was in flight may complete, but the task then changes nothing in
\* the position and submits no sell order.
C36_NoActionAfterCancel ==
  [][\A i \in 1..Len(loops) :
       (shuttingDown /\ loops[i].aborted /\ loops[i].pc = "price" /\ loops'[i] # loops[i])
         => /\ loops'[i].pc # "selling"
            /\ tradeHeap'[loops[i].trade] # NoTrade
                 => tradeHeap'[loops[i].trade] = tradeHeap[loops[i].trade]]_vars

\* ------------------------------------------- a job persisted as active
\* ActiveSpec: the bot started over a file an earlier process left behind.
\* saveScheduledListings writes the whole list, so a save made while a job's
\* retry loop was running (for another job's add, remove or mark) has written
\* that job with the status 'active' its loop set in memory (line 275).  The
\* startup's initialize() call is made, executor calls return, sleeps, timers
\* and queued writes complete, and time passes.
PersistedActive ==
  <<Listing([symbol |-> "OLD", listingTime |-> 0 - 2 * RetentionSeconds],
            "completed", 0 - 2 * RetentionSeconds),
    Listing(CHOOSE k \in JobKeys : TRUE, "active", 0)>>

ActiveInit ==
  /\ TradeStart([s \in Symbols |-> NoTrade])
  /\ \E file \in InitialListings \cup {PersistedActive} : SchedStart(file)
  /\ PersistStart([f \in Files |-> Absent])
  /\ OrderStart
  /\ RateStart(1)
  /\ ExecutorStart(FALSE)
  /\ ChangeStart

ActiveSpec ==
  /\ ActiveInit
  /\ [][RunNext]_vars
  /\ WF_vars(reloads = 0 /\ Initialize)
  /\ WF_vars(SchedSaveDone)
  /\ WF_vars(\E t \in timeouts : TimerFire(t))
  /\ WF_vars(\E e \in BagToSet(execs), r \in {"true", "false", "throw"} : ExecutorResult(e, r))
  /\ WF_vars(\E e \in BagToSet(execs) : ExecWake(e))
  /\ WF_vars(Tick)

\* C37: a job that the file holds as active when the process starts is, once
\* initialize() has run, eventually marked completed or missed.
C37_PersistedActiveIsSettled ==
  \A k \in JobKeys :
    (reloads > 0 /\ init = "idle" /\ FileStatus(schedFile, k) = "active") ~> Settled(k)

\* ---------------------------------- remove and cleanup during a retry loop
\* StopSpec: the scheduler over a persisted pending job, with
\* removeScheduledListing() and cleanup() calls made at any time, also while
\* the job's retry loop is running.  No list is loaded and no job is added
\* after the first such call, so that every retry loop that runs after the
\* call was already running when it was made.
StopNext ==
  \/ lastCall.op = "none" /\ Initialize
  \/ SetTradeExecutor
  \/ \E k \in JobKeys : RemoveScheduledListing(k)
  \/ Cleanup
  \/ SchedSaveDone
  \/ \E t \in timeouts : TimerFire(t)
  \/ \E e \in BagToSet(execs), r \in {"true", "false", "throw"} : ExecutorResult(e, r)
  \/ \E e \in BagToSet(execs) : ExecWake(e)
  \/ Tick

StopSpec == SchedInit /\ [][StopNext]_vars

\* C38: once removeScheduledListing() for a job, or cleanup(), has been called
\* while the job's retry loop was in progress, that loop does not invoke the
\* executor for the job again.
C38_NoInvocationAfterStop ==
  [][\A k \in JobKeys :
       (/\ lastCall.op = "cleanup" \/ (lastCall.op = "remove" /\ lastCall.key = k)
        /\ Executing(k))
         => ~Invoked(k)]_vars

\* ------------------------------------------- saveJson calls in a row
\* QueueSpec: saveJson calls for one file issued one after another without
\* awaiting, each with its own data.  saveJson first awaits ensureDataDir()
\* (line 469), an fs.mkdir that runs in the thread pool; only when that
\* promise has resolved does the call read writeQueues and chain its write
\* (lines 472-511).  The mkdir calls of several saveJson calls are in
\* progress together and end in any order.  Every file system call succeeds.
\* In writeOps the chained operations come first, in chain order, followed by
\* the calls still in ensureDataDir, in call order.
QueuedFile == ACTIVE_TRADES_FILE

\* the data of the n-th call
CallData(n) == ToString(n)

\* saveJson is called: up to `await ensureDataDir()`
SaveJsonCall ==
  /\ saves < MaxIssued
  /\ PersistCommit([P EXCEPT !.saves = @ + 1,
                             !.writeOps[QueuedFile] =
                                Append(@, [data |-> CallData(saves + 1), step |-> "mkdir",
                                           before |-> NoValue, caller |-> "saveJson"])])

\* ensureDataDir() resolves for the k-th entry: lines 472-511, the write is
\* chained on the file's last unsettled operation, or started if there is none
EnsureDataDirDone(k) ==
  /\ k \in 1..Len(writeOps[QueuedFile])
  /\ writeOps[QueuedFile][k].step = "mkdir"
  /\ LET rest == Remove(writeOps[QueuedFile], k)
         chained(o) == o.step # "mkdir"
         waiting(o) == o.step = "mkdir"
         chain == SelectSeq(rest, chained)
         p1 == [P EXCEPT !.writeOps[QueuedFile] =
                   chain \o <<[writeOps[QueuedFile][k] EXCEPT !.step = "queued"]>>
                         \o SelectSeq(rest, waiting)]
     IN IF chain = <<>>
        THEN PersistCommit(startWrite(p1, QueuedFile, 1))
        ELSE PersistCommit(p1)

QueueInit ==
  /\ TradeStart([s \in Symbols |-> NoTrade])
  /\ SchedStart(<<>>)
  /\ \E dir \in InitialDirs : PersistStart(dir)
  /\ OrderStart
  /\ RateStart(1)
  /\ ExecutorStart(FALSE)
  /\ ChangeStart

QueueNext ==
  \/ SaveJsonCall
  \/ \E k \in 1..Len(writeOps[QueuedFile]) : EnsureDataDirDone(k)
  \/ \E k \in 1..Len(writeOps[QueuedFile]) : WriteFileDone(QueuedFile, k, TRUE)
  \/ \E k \in 1..Len(writeOps[QueuedFile]) : UnlinkDone(QueuedFile, k, TRUE)
  \/ \E k \in 1..Len(writeOps[QueuedFile]) : RenameDone(QueuedFile, k, TRUE)

QueueSpec == QueueInit /\ [][QueueNext]_vars

\* C39: the writes of saveJson calls issued in a row for one file are applied
\* in call order: the file never goes from the data of a later call to the
\* data of an earlier one, and once every call has completed it holds the
\* data of the last call issued.
C39_WritesInCallOrder ==
  /\ []((saves > 0 /\ writeOps[QueuedFile] = <<>>)
          => fsTarget[QueuedFile] = CallData(saves))
  /\ [][\A n \in 1..saves :
          (fsTarget'[QueuedFile] = CallData(n) /\ fsTarget'[QueuedFile] # fsTarget[QueuedFile])
            => \A j \in 1..Len(writeOps'[QueuedFile]) :
                 \A i \in 1..(n - 1) : writeOps'[QueuedFile][j].data # CallData(i)]_vars

\* ------------------------------------------- cancellation during a sleep
\* AbortSpec: ShutSpec with saves that fail.  saveJson rethrows the error of
\* a failed write (part_009 lines 498-506), so the `await
\* this.saveActiveTrades()` of a monitoring iteration throws inside the try
\* block and the loop lands in its catch block, which logs and sleeps
\* retryDelay (manager.ts lines 402-405).

\* the oldest queued write of active_trades.json, made by a monitoring
\* iteration, fails: the file is unchanged and the loop goes to its catch block
SaveRejected ==
  /\ writeQueues[ACTIVE_TRADES_FILE] # <<>>
  /\ LET e == Head(writeQueues[ACTIVE_TRADES_FILE])
     IN /\ e.kind = "loop"
        /\ loops[e.loop].pc = "saving"
        /\ Commit([M EXCEPT !.writeQueues[ACTIVE_TRADES_FILE] = Tail(@),
                            !.loops[e.loop].pc = "errSleep"])

AbortNext ==
  \/ ShutNext
  \/ SaveRejected

AbortSpec == ShutInit /\ [][AbortNext]_vars

\* C40: the promise of a monitoring task never rejects, also when the task is
\* cancelled while it sleeps in its try block or in its catch block.
C40_MonitorNeverRejects ==
  \A i \in 1..Len(loops) : loops[i].pc # "rejected"

====
